---- MODULE Spec2Model ----
(***************************************************************************)
(* microkv: a namespace-sharded, optionally encrypted key-value store      *)
(* persisted as one flat snapshot file.                                    *)
(*                                                                         *)
(* The store aggregate is MicroKV030 (src/src/history/v030.rs); the        *)
(* per-namespace facade is NamespaceMicroKV (src/src/namespace.rs); the    *)
(* file is written by helpers::persist_serialize and read back by          *)
(* helpers::read_file_and_deserialize_bincode (src/src/helpers.rs).        *)
(*                                                                         *)
(* Strings, byte blobs and the bincode stream are modelled by integers so  *)
(* that the file is one flat sequence of tokens: a snapshot written over a *)
(* longer file leaves the old tail behind it, exactly as the code's        *)
(* OpenOptions::new().write(true).create(true) (no truncate) does.         *)
(***************************************************************************)
EXTENDS Integers, Sequences, FiniteSets, TLC

----------------------------------------------------------------------------
(* Bounds of the model.                                                    *)

NumNs == 2
NumKeys == 2
NumVals == 2
NumNonces == 2
NumPwds == 2
MaxOps == 2                          \* calls per behaviour of Spec
MaxPutOps == 3                       \* calls per behaviour of SpecPut
MaxOrderOps == 4                     \* calls per behaviour of SpecOrder
MaxOpenOps == 2                      \* calls before the reopening in SpecOpen
MaxReopenOps == 1                    \* calls after the reopening in SpecOpen
MaxDiskOps == 2                      \* calls per behaviour of SpecDisk
MaxCodecOps == 2                     \* calls per behaviour of SpecCodec
HistLen == 4                         \* calls remembered in hist
NumThreads == 2                      \* threads sharing the instance in SpecConc
MaxConcOps == 2                      \* calls per behaviour of SpecConc
MaxWatchOps == 2                     \* calls and external writes per behaviour of SpecWatch
MaxPoisonOps == 3                    \* calls per behaviour of SpecPoison
MaxSortOps == 3                      \* calls per behaviour of SpecSort
MaxReloadOps == 3                    \* calls per behaviour of SpecReload
MaxEnsureOps == 3                    \* calls per behaviour of SpecEnsure

Namespaces == 0 .. (NumNs - 1)      \* 0 is the default namespace ""
Keys == 1 .. NumKeys
Vals == 1 .. NumVals                 \* serde_json values
Nonces == 1 .. NumNonces
Pwds == 1 .. NumPwds                 \* 32-byte password hashes
NoPwd == 0                           \* pwd: None
VersionTag == 30                     \* version: "0.3.0"
DbPath == 1                          \* the path of the one backing file

----------------------------------------------------------------------------
(* Value codec: NamespaceMicroKV::put / get, helpers::encode_value /       *)
(* decode_value.  A blob is an integer packing the bincode bytes of the    *)
(* JSON text (ser), and for a sealed blob the nonce and key it was sealed  *)
(* under; a plain blob has key 0 and nonce 0.                              *)

JsonBincode(v) == v                  \* bincode::serialize(&json_text): 1..NumVals

Seal(ser, nonce, key) == ser + (NumVals + 1) * (nonce + (NumNonces + 1) * key)

BlobSer(b) == b % (NumVals + 1)
BlobNonce(b) == (b \div (NumVals + 1)) % (NumNonces + 1)
BlobKey(b) == b \div ((NumVals + 1) * (NumNonces + 1))

\* put's closure, namespace.rs:146-158: seal iff a password is set
EncodeBlob(v, pwd, nonce) ==
    IF pwd # NoPwd THEN Seal(JsonBincode(v), nonce, pwd) ELSE JsonBincode(v)

\* get's closure, namespace.rs:81-123.  Result: [err, val].
\*   secretbox::open fails unless the blob was sealed under this key and nonce;
\*   without a password the raw blob is handed to bincode, which only
\*   accepts the plain serialization of a JSON text.
DecodeBlob(b, pwd, nonce) ==
    IF pwd # NoPwd
    THEN IF BlobKey(b) = pwd /\ BlobNonce(b) = nonce
         THEN IF BlobSer(b) \in Vals
              THEN [err |-> "Ok", val |-> BlobSer(b)]
              ELSE [err |-> "KVError", val |-> 0]
         ELSE [err |-> "CryptoError", val |-> 0]
    ELSE IF b \in Vals
         THEN [err |-> "Ok", val |-> b]
         ELSE [err |-> "KVError", val |-> 0]

\* the element of a one-element set; {e(x) : x \in {d}} computes d once
Only(S) == CHOOSE x \in S : TRUE

----------------------------------------------------------------------------
(* KV = IndexMap<String, SecVec<u8>> (types.rs:9): a sequence of           *)
(* <<key, blob>> entries without duplicate keys, in iteration order.       *)

KeysOf(kv) == [i \in 1 .. Len(kv) |-> kv[i][1]]

ContainsKey(kv, k) == \E i \in 1 .. Len(kv) : kv[i][1] = k

IndexOf(kv, k) == CHOOSE i \in 1 .. Len(kv) : kv[i][1] = k

KvGet(kv, k) == kv[IndexOf(kv, k)][2]

\* the order-preserving removal (IndexMap::shift_remove), which the code does not use
ShiftRemove(kv, k) ==
    IF ~ContainsKey(kv, k) THEN kv
    ELSE LET i == IndexOf(kv, k)
         IN  [j \in 1 .. (Len(kv) - 1) |-> IF j < i THEN kv[j] ELSE kv[j + 1]]

\* IndexMap::remove is swap_remove: the last entry is moved into the hole
SwapRemove(kv, k) ==
    IF ~ContainsKey(kv, k) THEN kv
    ELSE LET i == IndexOf(kv, k)
             n == Len(kv)
         IN  [j \in 1 .. (n - 1) |-> IF j = i THEN kv[n] ELSE kv[j]]

\* IndexMap::insert of a key that is absent appends; of a present key it
\* replaces the blob in place
KvInsert(kv, k, b) ==
    IF ContainsKey(kv, k)
    THEN [kv EXCEPT ![IndexOf(kv, k)] = <<k, b>>]
    ELSE Append(kv, <<k, b>>)

\* put's closure, namespace.rs:139-160
PutClosure(kv, k, b) == KvInsert(SwapRemove(kv, k), k, b)

\* delete's closure, namespace.rs:170-173
DeleteClosure(kv, k) == SwapRemove(kv, k)

\* clear's closure, namespace.rs:221-229
ClearClosure(kv) == << >>

RECURSIVE SortInsert(_, _)
SortInsert(s, x) ==
    IF s = << >> THEN <<x>>
    ELSE IF x <= Head(s) THEN <<x>> \o s
    ELSE <<Head(s)>> \o SortInsert(Tail(s), x)

RECURSIVE SortAscending(_)
SortAscending(s) == IF s = << >> THEN << >> ELSE SortInsert(SortAscending(Tail(s)), Head(s))

\* mutant: the keys come back in the map's iteration order
UnsortedKeysOf(kv) == KeysOf(kv)

\* sorted_keys' closure, namespace.rs:208-213
SortedKeysOf(kv) == SortAscending(KeysOf(kv))

----------------------------------------------------------------------------
(* The snapshot stream.  bincode writes the fields of MicroKV030 in        *)
(* declaration order (v030.rs:17-35; pwd is skipped): version, path,       *)
(* storage (a length-prefixed map of length-prefixed maps), nonce,         *)
(* is_auto_commit.  The HashMap's iteration order is unspecified; the      *)
(* stream lists the namespaces in ascending order, which decodes to the    *)
(* same map as any other order.                                            *)

Put1(st, ns, kv) == [x \in (DOMAIN st) \cup {ns} |-> IF x = ns THEN kv ELSE st[x]]

Drop1(st, ns) == [x \in (DOMAIN st) \ {ns} |-> st[x]]

EmptyStorage == [x \in {} |-> << >>]

RECURSIVE SerEntries(_)
SerEntries(kv) ==
    IF kv = << >> THEN << >>
    ELSE <<Head(kv)[1], Head(kv)[2]>> \o SerEntries(Tail(kv))

SerKv(kv) == <<Len(kv)>> \o SerEntries(kv)

RECURSIVE SerNamespaces(_, _)
SerNamespaces(st, names) ==
    IF names = {} THEN << >>
    ELSE LET ns == CHOOSE x \in names : \A y \in names : x <= y
         IN  <<ns>> \o SerKv(st[ns]) \o SerNamespaces(st, names \ {ns})

SerStorage(st) == <<Cardinality(DOMAIN st)>> \o SerNamespaces(st, DOMAIN st)

BoolByte(b) == IF b THEN 1 ELSE 0

\* bincode::serialize(object) in persist_serialize, helpers.rs:160
Serialize(s) ==
    <<s.version, s.path>> \o SerStorage(s.storage) \o <<s.nonce, BoolByte(s.is_auto_commit)>>

\* file.write_all(&ser) on a file opened with write+create and no truncate
\* (helpers.rs:156-161): the stream replaces the head of the old content
OverwriteInPlace(old, ser) ==
    IF Len(ser) >= Len(old) THEN ser
    ELSE ser \o SubSeq(old, Len(ser) + 1, Len(old))

\* n entries of an IndexMap from position pos; a repeated key replaces
RECURSIVE ParseEntries(_, _, _, _)
ParseEntries(f, pos, n, acc) ==
    IF n = 0 THEN [ok |-> TRUE, kv |-> acc, pos |-> pos]
    ELSE IF pos + 1 > Len(f) THEN [ok |-> FALSE, kv |-> << >>, pos |-> pos]
    ELSE ParseEntries(f, pos + 2, n - 1, KvInsert(acc, f[pos], f[pos + 1]))

\* n namespaces of the HashMap from position pos
RECURSIVE ParseNamespaces(_, _, _, _)
ParseNamespaces(f, pos, n, acc) ==
    IF n = 0 THEN [ok |-> TRUE, st |-> acc, pos |-> pos]
    ELSE IF pos + 1 > Len(f) THEN [ok |-> FALSE, st |-> EmptyStorage, pos |-> pos]
    ELSE Only({IF ~e.ok THEN [ok |-> FALSE, st |-> EmptyStorage, pos |-> pos]
               ELSE ParseNamespaces(f, e.pos, n - 1, Put1(acc, f[pos], e.kv)) :
               e \in {ParseEntries(f, pos + 2, f[pos + 1], << >>)}})

NoStore == [ok |-> FALSE, version |-> 0, path |-> 0, storage |-> EmptyStorage,
            nonce |-> 0, is_auto_commit |-> FALSE]

\* mutant: a decoder that rejects bytes left over after the value
DeserializeStrict(f) ==
    IF Len(f) < 3 THEN NoStore
    ELSE Only({IF ~m.ok \/ m.pos + 1 # Len(f) THEN NoStore
               ELSE IF f[m.pos + 1] \notin {0, 1} THEN NoStore
               ELSE [ok |-> TRUE, version |-> f[1], path |-> f[2], storage |-> m.st,
                     nonce |-> f[m.pos], is_auto_commit |-> (f[m.pos + 1] = 1)] :
               m \in {ParseNamespaces(f, 4, f[3], EmptyStorage)}})

\* bincode::deserialize::<MicroKV030>(bytes) (helpers.rs:48, migrate.rs:54):
\* reads the fields off the head of the stream and ignores what follows;
\* fails when the stream ends early or the bool byte is neither 0 nor 1
Deserialize(f) ==
    IF Len(f) < 3 THEN NoStore
    ELSE Only({IF ~m.ok \/ m.pos + 1 > Len(f) THEN NoStore
               ELSE IF f[m.pos + 1] \notin {0, 1} THEN NoStore
               ELSE [ok |-> TRUE, version |-> f[1], path |-> f[2], storage |-> m.st,
                     nonce |-> f[m.pos], is_auto_commit |-> (f[m.pos + 1] = 1)] :
               m \in {ParseNamespaces(f, 4, f[3], EmptyStorage)}})

----------------------------------------------------------------------------
(* State of the single-threaded specifications.                            *)
(*   kv      the MicroKV030 instance in use (v030.rs:17-35); its storage   *)
(*           maps each registered namespace to its KV                      *)
(*   file    the backing file at kv.path: whether it exists, its content   *)
(*   hist    the most recent calls with their arguments and results,       *)
(*           newest last (at most HistLen of them)                         *)
(*   budget  number of calls the behaviour may still make                  *)
(*   session 1 until the path is reopened, 2 afterwards                    *)
(* State of the multi-threaded specification, on top of kv, file, budget:  *)
(*   th      per thread: where it stands in the call it is making and the  *)
(*           locals of that call (pre: the map as the write callback found *)
(*           it)                                                           *)
(*   locks   who holds the registry lock (MicroKV030::storage) and each    *)
(*           namespace's lock                                              *)

VARIABLES kv, file, hist, budget, session, th, locks

vars == <<kv, file, hist, budget, session, th, locks>>

Threads == 1 .. NumThreads

\* a thread that is not inside a call
Idle ==
    [pc |-> "idle", op |-> "none", ns |-> 0, key |-> 0, ret |-> "idle",
     other |-> [x \in {} |-> << >>], todo |-> {}, rem |-> {}, buf |-> << >>,
     pre |-> << >>, val |-> 0]

\* no lock is held: the registry RwLock has no reader (reg) and no writer
\* (regW, 0: none), no namespace RwLock has a reader (nsR) or a writer
\* (nsW, 0: none), and no namespace's RwLock is poisoned
Unlocked ==
    [reg |-> {}, regW |-> 0,
     nsR |-> [n \in Namespaces |-> {}], nsW |-> [n \in Namespaces |-> 0],
     poisoned |-> {}]

\* the single-threaded specifications leave the lock state alone
Quiescent == th = [t \in Threads |-> Idle] /\ locks = Unlocked

\* the path of the store: exists and bytes are the file there; writable is
\* whether OpenOptions::new().write(true).create(true).open(path)
\* (helpers.rs:156) succeeds
NoFile == [exists |-> FALSE, bytes |-> << >>, writable |-> TRUE]

\* mutant: a new store starts with auto-commit on
NewStoreAutoCommit(n, p, ac) ==
    [version |-> VersionTag, path |-> DbPath, storage |-> EmptyStorage,
     nonce |-> n, pwd |-> p, is_auto_commit |-> TRUE]

\* MicroKV::new_with_base_path (kv.rs:72-85) followed by the builder calls
\* with_pwd_hash (kv.rs:146-150) and set_auto_commit (kv.rs:153-156)
NewStore(n, p, ac) ==
    [version |-> VersionTag, path |-> DbPath, storage |-> EmptyStorage,
     nonce |-> n, pwd |-> p, is_auto_commit |-> ac]

\* helpers::read_file_and_deserialize_bincode (helpers.rs:41-55)
ReadFile(f) == IF f.exists THEN Deserialize(f.bytes) ELSE NoStore

\* mutant: the namespaces the file lacks are kept
ReloadKeepsAbsent(st, other) ==
    IF ~other.ok THEN st
    ELSE [x \in DOMAIN st \cup DOMAIN other.storage |->
             IF x \in DOMAIN other.storage THEN other.storage[x] ELSE st[x]]

\* MicroKV030::reload (v030.rs:166-201) on the registry st with the file f:
\* every namespace of the file is inserted over the in-memory one, every
\* in-memory namespace the file lacks is removed; an unreadable or
\* undecodable file leaves the registry as it is
ReloadFrom(st, other) ==
    LET c_ns == DOMAIN st
        o_ns == DOMAIN other.storage
        removed_ns == c_ns \ o_ns
    IN  IF ~other.ok THEN st
        ELSE [x \in (c_ns \cup o_ns) \ removed_ns |->
                 IF x \in o_ns THEN other.storage[x] ELSE st[x]]

Reload(st, f) == Only({ReloadFrom(st, other) : other \in {ReadFile(f)}})

\* mutant: the namespace is created empty whether or not it is there
SafeStorageRecreates(st, f, ns) ==
    Only({Put1(r, ns, << >>) : r \in {Reload(st, f)}})

\* MicroKV030::safe_storage (v030.rs:76-88)
SafeStorage(st, f, ns) ==
    Only({IF ns \in DOMAIN r THEN r ELSE Put1(r, ns, << >>) : r \in {Reload(st, f)}})

\* the registry as lock_read / lock_write hand it to the callback
\* (v030.rs:96-98, 117-119): reload, then safe_storage
Resolve(st, f, ns) == Only({SafeStorage(r, f, ns) : r \in {Reload(st, f)}})

\* mutant: the commit reports success whatever happened
CommitAlwaysOk(f) == "Ok"

\* the Result of helpers::persist_serialize (helpers.rs:156: the io::Error
\* of the failed open leaves through `?`), which MicroKV030::commit
\* returns as it is (v030.rs:152-154)
CommitResult(f) == IF f.writable THEN "Ok" ELSE "FileError"

\* helpers::persist_serialize (helpers.rs:135-163): when the open for
\* writing fails, `?` returns before anything is written
PersistSerialize(f, s) ==
    IF f.writable
    THEN [exists |-> TRUE,
          bytes |-> OverwriteInPlace(IF f.exists THEN f.bytes ELSE << >>, Serialize(s)),
          writable |-> TRUE]
    ELSE f

\* mutant: the commit is made whatever the flag says
AutoCommitAlways(f, s) == PersistSerialize(f, s)

\* the auto-commit tail of put, delete and clear (namespace.rs:161-164,
\* 175-178, 232-235)
AutoCommit(f, s) == IF s.is_auto_commit THEN PersistSerialize(f, s) ELSE f

\* mutant: the auto-commit's error is dropped
AutoCommitSwallowed(f, s) == "Ok"

\* what put, delete and clear return: the auto-commit's error,
\* `self.microkv.commit()?` (namespace.rs:162, 176, 233), else Ok(())
AutoCommitResult(f, s) == IF s.is_auto_commit THEN CommitResult(f) ELSE "Ok"

\* The file an earlier session left at the path: an instance with nonce n0
\* and password q put value 1 under every key of namespace ns0, in ascending
\* key order, and committed
PriorSession(n0, q, ns0) ==
    LET o == NewStore(n0, q, FALSE)
        data == [i \in 1 .. NumKeys |-> <<i, EncodeBlob(1, q, n0)>>]
    IN  PersistSerialize(NoFile, [o EXCEPT !.storage = Put1(EmptyStorage, ns0, data)])

\* bincode's stream of a MicroKVLessThan030 (history.rs:18-35; pwd is
\* skipped): path, storage (one length-prefixed map), nonce, is_auto_commit
LegacySerialize(path, data, nonce, ac) ==
    <<path>> \o SerKv(data) \o <<nonce, BoolByte(ac)>>

\* The file a release before 0.3.0 left at the path: an instance with nonce
\* n0 and password q put value 1 under every key (LegacyData), in ascending
\* key order, and committed.  Read as the current layout, the entry count
\* stands where the path's length is expected and the decoder runs off the
\* stream.
LegacyData(n0, q) == [i \in 1 .. NumKeys |-> <<i, EncodeBlob(1, q, n0)>>]

LegacySession(n0, q) ==
    [exists |-> TRUE,
     bytes |-> LegacySerialize(DbPath, LegacyData(n0, q), n0, FALSE),
     writable |-> TRUE]

\* a file whose write was cut short: the stream lacks its last byte
CutShort(f) == [f EXCEPT !.bytes = SubSeq(@, 1, Len(@) - 1)]

\* a file that was written at another path and then moved to this one: the
\* path is part of the stream (v030.rs:21)
MovedHere(f) == [f EXCEPT !.bytes[2] = DbPath + 1]

\* the files the path may hold when a session begins
DiskFiles(p) ==
    {NoFile, LegacySession(1, p), CutShort(PriorSession(1, p, 0)),
     MovedHere(PriorSession(1, p, 0))}
        \cup {PriorSession(1, p, ns0) : ns0 \in Namespaces}

Record(op, ns, key, val, pwd, err, out, keys) ==
    [op |-> op, ns |-> ns, key |-> key, val |-> val, pwd |-> pwd, err |-> err,
     out |-> out, keys |-> keys]

Push(h, r) == IF Len(h) < HistLen THEN Append(h, r) ELSE Append(Tail(h), r)

\* A fresh instance with nonce n, password p and auto-commit flag ac; the
\* path holds no file, or the file an earlier session of the same
\* application (same password, its nonce drawn as 1) left there
InitStore(n, p, ac) ==
    /\ kv = NewStore(n, p, ac)
    /\ file \in {NoFile} \cup {PriorSession(1, p, ns0) : ns0 \in Namespaces}
    /\ hist = << >>
    /\ session = 1
    /\ Quiescent

Init ==
    /\ \E n \in Nonces, p \in {NoPwd} \cup Pwds, ac \in BOOLEAN : InitStore(n, p, ac)
    /\ budget = MaxOps

\* mutant: a put whose auto-commit fails restores the registry
PutRollsBack(ns, k, v) ==
    /\ budget > 0
    /\ \E st \in {Resolve(kv.storage, file, ns)} :
          \E kv2 \in {[kv EXCEPT !.storage = Put1(st, ns, PutClosure(st[ns], k, EncodeBlob(v, kv.pwd, kv.nonce)))]} :
             /\ kv' = IF AutoCommitResult(file, kv) = "Ok" THEN kv2 ELSE kv
             /\ file' = AutoCommit(file, kv2)
    /\ hist' = Push(hist, Record("put", ns, k, v, kv.pwd, AutoCommitResult(file, kv), 0, << >>))
    /\ budget' = budget - 1
    /\ session' = session
    /\ UNCHANGED <<th, locks>>

\* NamespaceMicroKV::put (namespace.rs:133-165)
Put(ns, k, v) ==
    /\ budget > 0
    /\ \E st \in {Resolve(kv.storage, file, ns)} :
          \E kv2 \in {[kv EXCEPT !.storage = Put1(st, ns, PutClosure(st[ns], k, EncodeBlob(v, kv.pwd, kv.nonce)))]} :
             /\ kv' = kv2
             /\ file' = AutoCommit(file, kv2)
    /\ hist' = Push(hist, Record("put", ns, k, v, kv.pwd, AutoCommitResult(file, kv), 0, << >>))
    /\ budget' = budget - 1
    /\ session' = session
    /\ UNCHANGED <<th, locks>>

\* NamespaceMicroKV::delete (namespace.rs:168-179)
Delete(ns, k) ==
    /\ budget > 0
    /\ \E st \in {Resolve(kv.storage, file, ns)} :
          \E kv2 \in {[kv EXCEPT !.storage = Put1(st, ns, DeleteClosure(st[ns], k))]} :
             /\ kv' = kv2
             /\ file' = AutoCommit(file, kv2)
    /\ hist' = Push(hist, Record("delete", ns, k, 0, kv.pwd, AutoCommitResult(file, kv), 0, << >>))
    /\ budget' = budget - 1
    /\ session' = session
    /\ UNCHANGED <<th, locks>>

\* NamespaceMicroKV::clear (namespace.rs:220-236)
Clear(ns) ==
    /\ budget > 0
    /\ \E st \in {Resolve(kv.storage, file, ns)} :
          \E kv2 \in {[kv EXCEPT !.storage = Put1(st, ns, ClearClosure(st[ns]))]} :
             /\ kv' = kv2
             /\ file' = AutoCommit(file, kv2)
    /\ hist' = Push(hist, Record("clear", ns, 0, 0, kv.pwd, AutoCommitResult(file, kv), 0, << >>))
    /\ budget' = budget - 1
    /\ session' = session
    /\ UNCHANGED <<th, locks>>

\* the closure of NamespaceMicroKV::get (namespace.rs:72-128); val = 0 is None
GetClosure(data, k, pwd, nonce) ==
    IF ContainsKey(data, k) THEN DecodeBlob(KvGet(data, k), pwd, nonce)
    ELSE [err |-> "Ok", val |-> 0]

\* NamespaceMicroKV::get (namespace.rs:70-130); out = 0 is None
Get(ns, k) ==
    /\ budget > 0
    /\ \E st \in {Resolve(kv.storage, file, ns)} :
          \E r \in {GetClosure(st[ns], k, kv.pwd, kv.nonce)} :
             /\ kv' = [kv EXCEPT !.storage = st]
             /\ hist' = Push(hist, Record("get", ns, k, 0, kv.pwd, r.err, r.val, << >>))
    /\ file' = file
    /\ budget' = budget - 1
    /\ session' = session
    /\ UNCHANGED <<th, locks>>

\* NamespaceMicroKV::exists (namespace.rs:182-186); out = 1 is true
Exists(ns, k) ==
    /\ budget > 0
    /\ \E st \in {Resolve(kv.storage, file, ns)} :
          /\ kv' = [kv EXCEPT !.storage = st]
          /\ hist' = Push(hist, Record("exists", ns, k, 0, kv.pwd, "Ok",
                                       BoolByte(ContainsKey(st[ns], k)), << >>))
    /\ file' = file
    /\ budget' = budget - 1
    /\ session' = session
    /\ UNCHANGED <<th, locks>>

\* NamespaceMicroKV::keys (namespace.rs:193-200)
KeysOp(ns) ==
    /\ budget > 0
    /\ \E st \in {Resolve(kv.storage, file, ns)} :
          /\ kv' = [kv EXCEPT !.storage = st]
          /\ hist' = Push(hist, Record("keys", ns, 0, 0, kv.pwd, "Ok", 0, KeysOf(st[ns])))
    /\ file' = file
    /\ budget' = budget - 1
    /\ session' = session
    /\ UNCHANGED <<th, locks>>

\* NamespaceMicroKV::sorted_keys (namespace.rs:207-215)
SortedKeys(ns) ==
    /\ budget > 0
    /\ \E st \in {Resolve(kv.storage, file, ns)} :
          /\ kv' = [kv EXCEPT !.storage = st]
          /\ hist' = Push(hist, Record("sorted_keys", ns, 0, 0, kv.pwd, "Ok", 0,
                                       SortedKeysOf(st[ns])))
    /\ file' = file
    /\ budget' = budget - 1
    /\ session' = session
    /\ UNCHANGED <<th, locks>>

\* MicroKV030::commit (v030.rs:152-154)
Commit ==
    /\ budget > 0
    /\ file' = PersistSerialize(file, kv)
    /\ kv' = kv
    /\ hist' = Push(hist, Record("commit", 0, 0, 0, kv.pwd, CommitResult(file), 0, << >>))
    /\ budget' = budget - 1
    /\ session' = session
    /\ UNCHANGED <<th, locks>>

\* mutant: bytes that do not decode are taken for an empty store
MigrateFresh(f) ==
    Only({IF m.ok THEN m ELSE Deserialize(Serialize(NewStore(m.nonce + 1, NoPwd, FALSE))) :
          m \in {Deserialize(f.bytes)}})

\* Migrate::migrate (migrate.rs:23-50): the file decodes as the current
\* layout, or migration fails (try_less_than_030 always fails, migrate.rs:61-69)
Migrate(f) == Deserialize(f.bytes)

\* CURRENT_VERSION (migrate.rs:8), the version of the crate whose current
\* layout is MicroKV030
CURRENT_VERSION == VersionTag

\* "<0.3.0", the source version try_less_than_030 reports (migrate.rs:62);
\* its error is the one `or_else` leaves (migrate.rs:24-26)
LessThan030 == VersionTag - 1

\* mutant: the opened store gets a nonce of its own, as a new one does
OpenedNewNonce(m) ==
    [version |-> m.version, path |-> DbPath, storage |-> m.storage,
     nonce |-> (m.nonce % NumNonces) + 1, pwd |-> NoPwd,
     is_auto_commit |-> m.is_auto_commit]

\* the store open_with_base_path makes of the decoded file m: the fields
\* of the file (pwd is not among them), with the requested path
\* (kv.rs:102-103)
Opened(m) ==
    [version |-> m.version, path |-> DbPath, storage |-> m.storage,
     nonce |-> m.nonce, pwd |-> NoPwd, is_auto_commit |-> m.is_auto_commit]

\* MicroKV::open_with_base_path (kv.rs:97-110) followed by the builder call
\* with_pwd_hash(p) when p is a password (kv.rs:146-150).  When the path
\* holds no file the new store's nonce is whatever gen_nonce draws.  On an
\* error, of migrate()? or of commit()?, the caller gets no store and keeps
\* the one it had.
OpenStore(p) ==
    IF file.exists
    THEN \E m \in {Migrate(file)} :
            \E opened \in {Opened(m)} :
               IF m.ok
               THEN /\ file' = PersistSerialize(file, opened)
                    /\ kv' = IF CommitResult(file) = "Ok"
                             THEN [opened EXCEPT !.pwd = p] ELSE kv
                    /\ hist' = Push(hist, Record("open", 0, 0, 0, p, CommitResult(file), 0, << >>))
               ELSE /\ file' = file
                    /\ kv' = kv
                    /\ hist' = Push(hist, Record("open", 0, 0, LessThan030, p, "MigrateError",
                                                 CURRENT_VERSION, << >>))
    ELSE /\ file' = file
         /\ \E n \in Nonces : kv' = NewStore(n, p, FALSE)
         /\ hist' = Push(hist, Record("open", 0, 0, 0, p, "Ok", 0, << >>))

\* the application ends its session and opens the path again; the reopened
\* handle makes MaxReopenOps further calls
Open(p) ==
    /\ budget >= 0
    /\ session = 1
    /\ OpenStore(p)
    /\ budget' = MaxReopenOps
    /\ session' = 2
    /\ UNCHANGED <<th, locks>>

\* the application opens the path in the course of a session, as one more
\* of its calls
Reopen(p) ==
    /\ budget > 0
    /\ OpenStore(p)
    /\ budget' = budget - 1
    /\ session' = session
    /\ UNCHANGED <<th, locks>>

----------------------------------------------------------------------------
(* Spec: the facade of one instance, single-threaded, no other writer.     *)

Next ==
    \/ \E ns \in Namespaces, k \in Keys, v \in Vals : Put(ns, k, v)
    \/ \E ns \in Namespaces, k \in Keys : Delete(ns, k)
    \/ \E ns \in Namespaces : Clear(ns)
    \/ \E ns \in Namespaces, k \in Keys : Get(ns, k)
    \/ \E ns \in Namespaces, k \in Keys : Exists(ns, k)
    \/ \E ns \in Namespaces : KeysOp(ns)
    \/ \E ns \in Namespaces : SortedKeys(ns)
    \/ Commit

Spec == Init /\ [][Next]_vars

(* SpecPut: longer runs of put, get and keys.                              *)

InitPut ==
    /\ \E n \in Nonces, p \in {NoPwd} \cup Pwds, ac \in BOOLEAN : InitStore(n, p, ac)
    /\ budget = MaxPutOps

NextPut ==
    \/ \E ns \in Namespaces, k \in Keys, v \in Vals : Put(ns, k, v)
    \/ \E ns \in Namespaces, k \in Keys : Get(ns, k)
    \/ \E ns \in Namespaces : KeysOp(ns)

SpecPut == InitPut /\ [][NextPut]_vars

(* SpecOrder: no backing file, no auto-commit, one more key than Keys so   *)
(* that a removal leaves two other keys behind.                            *)

OrderKeys == 1 .. (NumKeys + 1)

InitOrder ==
    /\ \E n \in Nonces : kv = NewStore(n, NoPwd, FALSE)
    /\ hist = << >>
    /\ file = NoFile
    /\ session = 1
    /\ Quiescent
    /\ budget = MaxOrderOps

NextOrder ==
    \/ \E ns \in Namespaces, k \in OrderKeys, v \in Vals : Put(ns, k, v)
    \/ \E ns \in Namespaces, k \in OrderKeys : Delete(ns, k)
    \/ \E ns \in Namespaces : Clear(ns)
    \/ \E ns \in Namespaces : KeysOp(ns)

SpecOrder == InitOrder /\ [][NextOrder]_vars

(* SpecSort: put, keys and sorted_keys, long enough for a namespace whose   *)
(* insertion order is not the ascending one to be listed.                  *)

InitSort ==
    /\ \E n \in Nonces, ac \in BOOLEAN : InitStore(n, NoPwd, ac)
    /\ budget = MaxSortOps

NextSort ==
    \/ \E ns \in Namespaces, k \in Keys, v \in Vals : Put(ns, k, v)
    \/ \E ns \in Namespaces : KeysOp(ns)
    \/ \E ns \in Namespaces : SortedKeys(ns)

SpecSort == InitSort /\ [][NextSort]_vars

(* SpecReload: put, delete and commit, and reload as a call of its own.    *)

\* MicroKV030::reload (v030.rs:166-201); it returns Ok(()) also when the
\* file is not read or decoded (v030.rs:167-170)
ReloadOp ==
    /\ budget > 0
    /\ kv' = [kv EXCEPT !.storage = Reload(@, file)]
    /\ hist' = Push(hist, Record("reload", 0, 0, 0, kv.pwd, "Ok", 0, << >>))
    /\ budget' = budget - 1
    /\ UNCHANGED <<file, session, th, locks>>

InitReload ==
    /\ \E n \in Nonces, p \in {NoPwd} \cup Pwds, ac \in BOOLEAN : InitStore(n, p, ac)
    /\ budget = MaxReloadOps

NextReload ==
    \/ \E ns \in Namespaces, k \in Keys, v \in Vals : Put(ns, k, v)
    \/ \E ns \in Namespaces, k \in Keys : Delete(ns, k)
    \/ Commit
    \/ ReloadOp

SpecReload == InitReload /\ [][NextReload]_vars

(* SpecEnsure: put and delete, and safe_storage as a call of its own.      *)

\* MicroKV030::safe_storage (v030.rs:76-88): reload, then the namespace is
\* created empty when the registry lacks it
SafeStorageOp(ns) ==
    /\ budget > 0
    /\ kv' = [kv EXCEPT !.storage = SafeStorage(@, file, ns)]
    /\ hist' = Push(hist, Record("safe_storage", ns, 0, 0, kv.pwd, "Ok", 0, << >>))
    /\ budget' = budget - 1
    /\ UNCHANGED <<file, session, th, locks>>

InitEnsure ==
    /\ \E n \in Nonces, ac \in BOOLEAN : InitStore(n, NoPwd, ac)
    /\ budget = MaxEnsureOps

NextEnsure ==
    \/ \E ns \in Namespaces, k \in Keys, v \in Vals : Put(ns, k, v)
    \/ \E ns \in Namespaces, k \in Keys : Delete(ns, k)
    \/ \E ns \in Namespaces : SafeStorageOp(ns)

SpecEnsure == InitEnsure /\ [][NextEnsure]_vars

(* SpecOpen: a first session of MaxOpenOps calls, then the path is         *)
(* reopened and the new handle is used.                                    *)

InitOpen ==
    /\ \E n \in Nonces, p \in {NoPwd} \cup Pwds, ac \in BOOLEAN : InitStore(n, p, ac)
    /\ budget = MaxOpenOps

NextOpen ==
    \/ \E ns \in Namespaces, k \in Keys, v \in Vals : Put(ns, k, v)
    \/ \E ns \in Namespaces, k \in Keys : Delete(ns, k)
    \/ \E ns \in Namespaces, k \in Keys : Get(ns, k)
    \/ Commit
    \/ \E p \in {NoPwd} \cup Pwds : Open(p)

SpecOpen == InitOpen /\ [][NextOpen]_vars

(* SpecDisk: the path holds no file, a current file, a file of an older   *)
(* release or a torn file, written under this session's password or under *)
(* another one, and may refuse to be opened for writing; the session opens *)
(* the path whenever it likes.                                             *)

InitDisk ==
    /\ \E n \in Nonces, p \in {NoPwd} \cup Pwds, ac \in BOOLEAN :
          /\ kv = NewStore(n, p, ac)
          /\ \E q \in {NoPwd} \cup Pwds, w \in BOOLEAN :
                \E f \in DiskFiles(q) : file = [f EXCEPT !.writable = w]
    /\ hist = << >>
    /\ session = 1
    /\ Quiescent
    /\ budget = MaxDiskOps

NextDisk ==
    \/ \E ns \in Namespaces, k \in Keys, v \in Vals : Put(ns, k, v)
    \/ \E ns \in Namespaces, k \in Keys : Delete(ns, k)
    \/ \E ns \in Namespaces : Clear(ns)
    \/ \E ns \in Namespaces, k \in Keys : Get(ns, k)
    \/ Commit
    \/ \E p \in {NoPwd} \cup Pwds : Reopen(p)

SpecDisk == InitDisk /\ [][NextDisk]_vars

(* SpecCodec: the value codec on its own, under one password option and    *)
(* one nonce; blobs of any content are handed to the decoder.              *)

\* mutant: the value is sealed under the nonce next to the one given
EncodeOtherNonce(value, pwd, nonce) ==
    IF pwd # NoPwd THEN Seal(JsonBincode(value), (nonce % NumNonces) + 1, pwd)
    ELSE JsonBincode(value)

\* helpers::encode_value (helpers.rs:63-83): JSON text, bincode, and
\* secretbox::seal iff a password is given
encode_value(value, pwd, nonce) ==
    IF pwd # NoPwd THEN Seal(JsonBincode(value), nonce, pwd) ELSE JsonBincode(value)

\* helpers::decode_value (helpers.rs:86-132): secretbox::open iff a password
\* is given, else the bytes as they are; then bincode and JSON
decode_value(value, pwd, nonce) ==
    IF pwd # NoPwd
    THEN IF BlobKey(value) = pwd /\ BlobNonce(value) = nonce
         THEN IF BlobSer(value) \in Vals
              THEN [err |-> "Ok", val |-> BlobSer(value)]
              ELSE [err |-> "KVError", val |-> 0]
         ELSE [err |-> "CryptoError", val |-> 0]
    ELSE IF value \in Vals
         THEN [err |-> "Ok", val |-> value]
         ELSE [err |-> "KVError", val |-> 0]

\* every byte string a blob can be
Blobs == 0 .. Seal(NumVals, NumNonces, NumPwds)

\* a call of encode_value with the store's password and nonce
\* (MicroKV030::encode_value, v030.rs:61-68); out is the blob
EncodeValue(v) ==
    /\ budget > 0
    /\ hist' = Push(hist, Record("encode_value", 0, 0, v, kv.pwd, "Ok",
                                 encode_value(v, kv.pwd, kv.nonce), << >>))
    /\ budget' = budget - 1
    /\ UNCHANGED <<kv, file, session, th, locks>>

\* a call of decode_value with the store's password and nonce
\* (MicroKV030::decode_value, v030.rs:70-74); val is the blob, out the value
DecodeValue(b) ==
    /\ budget > 0
    /\ \E r \in {decode_value(b, kv.pwd, kv.nonce)} :
          hist' = Push(hist, Record("decode_value", 0, 0, b, kv.pwd, r.err, r.val, << >>))
    /\ budget' = budget - 1
    /\ UNCHANGED <<kv, file, session, th, locks>>

InitCodec ==
    /\ \E n \in Nonces, p \in {NoPwd} \cup Pwds : kv = NewStore(n, p, FALSE)
    /\ file = NoFile
    /\ hist = << >>
    /\ session = 1
    /\ Quiescent
    /\ budget = MaxCodecOps

NextCodec ==
    \/ \E v \in Vals : EncodeValue(v)
    \/ \E b \in Blobs : DecodeValue(b)

SpecCodec == InitCodec /\ [][NextCodec]_vars

----------------------------------------------------------------------------
(* SpecConc: NumThreads threads share one instance (MicroKV030 is Clone    *)
(* and its storage is an Arc, v030.rs:17-28).  Every acquisition of a lock *)
(* is a step of its own; a section that takes the registry's write lock,   *)
(* changes the map and drops the guard at once is one step.  A namespace's *)
(* lock is named by the namespace: an entry of the registry is replaced    *)
(* only under the registry's write lock, and a namespace lock is held only *)
(* by a thread that holds the registry's read lock (LockUnderRegistry).    *)

WriteOps == {"put", "delete", "clear"}
ReadOps == {"get", "exists", "keys"}
FacadeOps == WriteOps \cup ReadOps

KeyedOps == {"put", "delete", "get", "exists"}

\* mutant: a shared lock that is granted while a writer holds the lock
CanReadAlways(l, ns) == TRUE

\* RwLock::read on a namespace's lock (v030.rs:104): no writer holds it
CanRead(l, ns) == l.nsW[ns] = 0

\* mutant: an exclusive lock that is granted while readers hold the lock
CanWriteAmongReaders(l, ns) == l.nsW[ns] = 0

\* RwLock::write on a namespace's lock (v030.rs:125): nobody holds it
CanWrite(l, ns) == l.nsW[ns] = 0 /\ l.nsR[ns] = {}

\* RwLock::write on the registry (v030.rs:79, 135, 183, 192): nobody holds
\* it (the calls of the facade hold it as writers within one step only)
CanWriteRegistry(l) == l.reg = {} /\ l.regW = 0

\* RwLock::read on the registry (v030.rs:99, 120, kv.rs:163): no writer
\* holds it
CanReadRegistry(l) == l.regW = 0

\* mutant: a guard that is not dropped
KeepNs(l, t, ns) == l

\* dropping a namespace's guard
ReleaseNs(l, t, ns) ==
    [l EXCEPT !.nsR[ns] = @ \ {t}, !.nsW[ns] = IF @ = t THEN 0 ELSE @]

\* the namespace locks thread t holds
HeldNs(t) == {n \in Namespaces : t \in locks.nsR[n] \/ locks.nsW[n] = t}

\* where reload goes after it has listed both sides (v030.rs:171-176)
ReloadPc(todo, rem, ret) ==
    IF todo # {} THEN "rl_ins" ELSE IF rem # {} THEN "rl_rem" ELSE ret

\* a call starts: the facade operations enter lock_read / lock_write
\* (v030.rs:96, 117), delete_namespace enters reload (v030.rs:134), commit
\* enters persist_serialize (v030.rs:153)
Begin(t, op, ns, k, v) ==
    /\ budget > 0
    /\ th[t].pc = "idle"
    /\ th' = [th EXCEPT ![t] =
                 [Idle EXCEPT !.op = op, !.ns = ns, !.key = k, !.val = v,
                              !.pc = IF op = "commit" THEN "ser_reg" ELSE "reload",
                              !.ret = IF op = "delete_namespace" THEN "dn_write"
                                      ELSE "reload2"]]
    /\ budget' = budget - 1
    /\ UNCHANGED <<kv, file, hist, session, locks>>

\* reload, v030.rs:167-170: the file is read and decoded; when that fails
\* reload returns.  The second reload of a facade call is safe_storage's
\* (v030.rs:77).
ReloadRead(t) ==
    /\ th[t].pc \in {"reload", "reload2"}
    /\ \E other \in {ReadFile(file)} :
          LET ret == IF th[t].pc = "reload2" THEN "ss_write" ELSE th[t].ret
          IN  th' = [th EXCEPT ![t].ret = ret,
                               ![t].other = IF other.ok THEN other.storage ELSE Idle.other,
                               ![t].pc = IF other.ok THEN "rl_cns" ELSE ret]
    /\ UNCHANGED <<kv, file, hist, budget, session, locks>>

\* reload moves on with todo and rem left to do; `other` is dropped when it
\* returns (v030.rs:199-200)
ReloadStep(r, todo, rem) ==
    LET pc == ReloadPc(todo, rem, r.ret)
    IN  [r EXCEPT !.todo = todo, !.rem = rem, !.pc = pc,
                  !.other = IF pc = r.ret THEN Idle.other ELSE @]

\* reload, v030.rs:171-176: self.namespaces() takes and drops the
\* registry's read lock (kv.rs:162-169); o_ns and removed_ns are computed
ReloadNames(t) ==
    /\ th[t].pc = "rl_cns"
    /\ CanReadRegistry(locks)
    /\ LET o_ns == DOMAIN th[t].other
           removed_ns == (DOMAIN kv.storage) \ o_ns
       IN  th' = [th EXCEPT ![t] = ReloadStep(@, o_ns, removed_ns)]
    /\ UNCHANGED <<kv, file, hist, budget, session, locks>>

\* reload, v030.rs:181-190: one namespace of the file is inserted under the
\* registry's write lock
ReloadInsert(t) ==
    /\ th[t].pc = "rl_ins"
    /\ CanWriteRegistry(locks)
    /\ \E ns \in th[t].todo :
          /\ kv' = [kv EXCEPT !.storage = Put1(@, ns, th[t].other[ns])]
          /\ th' = [th EXCEPT ![t] = ReloadStep(@, th[t].todo \ {ns}, th[t].rem)]
    /\ UNCHANGED <<file, hist, budget, session, locks>>

\* reload, v030.rs:191-198: one namespace the file lacks is removed under
\* the registry's write lock
ReloadRemove(t) ==
    /\ th[t].pc = "rl_rem"
    /\ CanWriteRegistry(locks)
    /\ \E ns \in th[t].rem :
          /\ kv' = [kv EXCEPT !.storage = Drop1(@, ns)]
          /\ th' = [th EXCEPT ![t] = ReloadStep(@, {}, th[t].rem \ {ns})]
    /\ UNCHANGED <<file, hist, budget, session, locks>>

\* safe_storage, v030.rs:79-87: under the registry's write lock the
\* namespace is created when absent
SafeStorageWrite(t) ==
    /\ th[t].pc = "ss_write"
    /\ CanWriteRegistry(locks)
    /\ kv' = [kv EXCEPT !.storage =
                 IF th[t].ns \in DOMAIN @ THEN @ ELSE Put1(@, th[t].ns, << >>)]
    /\ th' = [th EXCEPT ![t].pc = "reg_read", ![t].ret = "idle"]
    /\ UNCHANGED <<file, hist, budget, session, locks>>

\* lock_read / lock_write, v030.rs:99-103, 120-124: the registry's read lock
\* is taken and kept; storage_map.get(namespace).unwrap() panics when the
\* namespace has been removed since safe_storage, and the unwinding drops
\* the guard
RegistryRead(t) ==
    /\ th[t].pc = "reg_read"
    /\ CanReadRegistry(locks)
    /\ IF th[t].ns \in DOMAIN kv.storage
       THEN /\ locks' = [locks EXCEPT !.reg = @ \cup {t}]
            /\ th' = [th EXCEPT ![t].pc = "ns_lock"]
       ELSE /\ locks' = locks
            /\ th' = [th EXCEPT ![t] = [Idle EXCEPT !.pc = "panicked"]]
    /\ UNCHANGED <<kv, file, hist, budget, session>>

\* lock_read, v030.rs:104: the namespace's shared lock
NamespaceRead(t) ==
    /\ th[t].pc = "ns_lock"
    /\ th[t].op \in ReadOps
    /\ CanRead(locks, th[t].ns)
    /\ locks' = [locks EXCEPT !.nsR[th[t].ns] = @ \cup {t}]
    /\ th' = [th EXCEPT ![t].pc = "cb"]
    /\ UNCHANGED <<kv, file, hist, budget, session>>

\* lock_write, v030.rs:125: the namespace's exclusive lock
NamespaceWrite(t) ==
    /\ th[t].pc = "ns_lock"
    /\ th[t].op \in WriteOps
    /\ CanWrite(locks, th[t].ns)
    /\ locks' = [locks EXCEPT !.nsW[th[t].ns] = t]
    /\ th' = [th EXCEPT ![t].pc = "cb"]
    /\ UNCHANGED <<kv, file, hist, budget, session>>

\* lock_read / lock_write return (v030.rs:108-109, 129-130): the
\* namespace's guard is dropped, then the registry's
Unlock(l, t, ns) == [ReleaseNs(l, t, ns) EXCEPT !.reg = @ \ {t}]

\* the call goes on after lock_write: commit when auto-commit is enabled
\* (namespace.rs:161-164, 175-178, 232-235)
AfterWrite(r) ==
    IF kv.is_auto_commit
    THEN [Idle EXCEPT !.op = r.op, !.ns = r.ns, !.key = r.key, !.val = r.val, !.pc = "ser_reg"]
    ELSE Idle

\* SecVec::zero_out on every blob (namespace.rs:223-225)
ZeroOut(data) == [i \in 1 .. Len(data) |-> <<data[i][1], 0>>]

\* first half of a write callback: put removes the key when present
\* (namespace.rs:141-143), clear wipes the blobs (namespace.rs:223-225)
WriteCallback1(t) ==
    /\ th[t].pc = "cb"
    /\ th[t].op \in {"put", "clear"}
    /\ LET ns == th[t].ns
           data == kv.storage[ns]
       IN  kv' = [kv EXCEPT !.storage[ns] =
                     IF th[t].op = "put" THEN SwapRemove(data, th[t].key)
                     ELSE ZeroOut(data)]
    /\ th' = [th EXCEPT ![t].pc = "cb2", ![t].pre = kv.storage[th[t].ns]]
    /\ UNCHANGED <<file, hist, budget, session, locks>>

\* second half of a write callback, and the whole of delete's: put inserts
\* the sealed value (namespace.rs:146-159), clear empties the map
\* (namespace.rs:228), delete removes the key (namespace.rs:172); then
\* lock_write returns
WriteCallback2(t) ==
    /\ \/ th[t].pc = "cb2"
       \/ th[t].pc = "cb" /\ th[t].op = "delete"
    /\ LET ns == th[t].ns
           data == kv.storage[ns]
       IN  kv' = [kv EXCEPT !.storage[ns] =
                     CASE th[t].op = "put" ->
                              KvInsert(data, th[t].key, EncodeBlob(th[t].val, kv.pwd, kv.nonce))
                       [] th[t].op = "clear" -> ClearClosure(data)
                       [] OTHER -> DeleteClosure(data, th[t].key)]
    /\ locks' = Unlock(locks, t, th[t].ns)
    /\ th' = [th EXCEPT ![t] = AfterWrite(@)]
    /\ UNCHANGED <<file, hist, budget, session>>

\* a write callback has begun on ns and has not finished
Partial(ns) == \E w \in Threads : th[w].pc = "cb2" /\ th[w].ns = ns

\* the read callbacks of get, exists and keys (namespace.rs:72-128, 185,
\* 194-198) read the namespace's map; then lock_read returns
ReadCallback(t) ==
    /\ th[t].pc = "cb"
    /\ th[t].op \in ReadOps
    /\ locks' = Unlock(locks, t, th[t].ns)
    /\ th' = [th EXCEPT ![t] = Idle]
    /\ UNCHANGED <<kv, file, hist, budget, session>>

\* mutant: the registry's write guard is still held when commit follows
DeleteNamespaceKeepsGuard(t) ==
    /\ th[t].pc = "dn_write"
    /\ CanWriteRegistry(locks)
    /\ kv' = [kv EXCEPT !.storage = Drop1(@, th[t].ns)]
    /\ th' = [th EXCEPT ![t] = AfterWrite(@)]
    /\ locks' = [locks EXCEPT !.regW = IF kv.is_auto_commit THEN t ELSE @]
    /\ UNCHANGED <<file, hist, budget, session>>

\* delete_namespace, v030.rs:135-145: the namespace is removed under the
\* registry's write lock; with auto-commit the guard is dropped and commit
\* follows
DeleteNamespaceWrite(t) ==
    /\ th[t].pc = "dn_write"
    /\ CanWriteRegistry(locks)
    /\ kv' = [kv EXCEPT !.storage = Drop1(@, th[t].ns)]
    /\ th' = [th EXCEPT ![t] = AfterWrite(@)]
    /\ UNCHANGED <<file, hist, budget, session, locks>>

\* persist_serialize, helpers.rs:156-160: the file is opened (created
\* empty when absent); serializing MicroKV030 writes version and path and
\* takes the registry's read lock (serde's Serialize for RwLock) to list
\* the namespaces
SerializeRegistry(t) ==
    /\ th[t].pc = "ser_reg"
    /\ CanReadRegistry(locks)
    /\ file' = [file EXCEPT !.exists = TRUE]
    /\ locks' = [locks EXCEPT !.reg = @ \cup {t}]
    /\ th' = [th EXCEPT ![t].pc = "ser_ns", ![t].todo = DOMAIN kv.storage,
                        ![t].buf = <<kv.version, kv.path, Cardinality(DOMAIN kv.storage)>>]
    /\ UNCHANGED <<kv, hist, budget, session>>

\* the next namespace of the stream
NextName(names) == CHOOSE x \in names : \A y \in names : x <= y

\* serializing one namespace begins: its shared lock is taken
SerializeLock(t) ==
    /\ th[t].pc = "ser_ns"
    /\ th[t].todo # {}
    /\ CanRead(locks, NextName(th[t].todo))
    /\ locks' = [locks EXCEPT !.nsR[NextName(th[t].todo)] = @ \cup {t}]
    /\ th' = [th EXCEPT ![t].pc = "ser_kv"]
    /\ UNCHANGED <<kv, file, hist, budget, session>>

\* the namespace's entries go to the stream and its guard is dropped
SerializeKv(t) ==
    /\ th[t].pc = "ser_kv"
    /\ LET ns == NextName(th[t].todo)
       IN  /\ th' = [th EXCEPT ![t].pc = "ser_ns", ![t].todo = @ \ {ns},
                               ![t].buf = @ \o <<ns>> \o SerKv(kv.storage[ns])]
           /\ locks' = ReleaseNs(locks, t, ns)
    /\ UNCHANGED <<kv, file, hist, budget, session>>

\* the registry's guard is dropped, nonce and flag end the stream, and the
\* stream is written over the head of the file (helpers.rs:160-161)
SerializeWrite(t) ==
    /\ th[t].pc = "ser_ns"
    /\ th[t].todo = {}
    /\ locks' = [locks EXCEPT !.reg = @ \ {t}]
    /\ file' = [file EXCEPT !.exists = TRUE,
                            !.bytes = OverwriteInPlace(file.bytes,
                                th[t].buf \o <<kv.nonce, BoolByte(kv.is_auto_commit)>>)]
    /\ th' = [th EXCEPT ![t] = Idle]
    /\ UNCHANGED <<kv, hist, budget, session>>

\* One instance without password, auto-commit on or off; no file, or the
\* file an earlier session left with one namespace in it
InitConc ==
    /\ \E n \in Nonces, ac \in BOOLEAN : kv = NewStore(n, NoPwd, ac)
    /\ file \in {NoFile} \cup {PriorSession(1, NoPwd, ns0) : ns0 \in Namespaces}
    /\ hist = << >>
    /\ session = 1
    /\ Quiescent
    /\ budget = MaxConcOps

NextConc ==
    \/ \E t \in Threads, ns \in Namespaces, k \in Keys, v \in Vals : Begin(t, "put", ns, k, v)
    \/ \E t \in Threads, op \in KeyedOps \ {"put"}, ns \in Namespaces, k \in Keys :
          Begin(t, op, ns, k, 0)
    \/ \E t \in Threads, op \in {"clear", "keys", "delete_namespace"}, ns \in Namespaces :
          Begin(t, op, ns, 0, 0)
    \/ \E t \in Threads : Begin(t, "commit", 0, 0, 0)
    \/ \E t \in Threads : ReloadRead(t)
    \/ \E t \in Threads : ReloadNames(t)
    \/ \E t \in Threads : ReloadInsert(t)
    \/ \E t \in Threads : ReloadRemove(t)
    \/ \E t \in Threads : SafeStorageWrite(t)
    \/ \E t \in Threads : RegistryRead(t)
    \/ \E t \in Threads : NamespaceRead(t)
    \/ \E t \in Threads : NamespaceWrite(t)
    \/ \E t \in Threads : WriteCallback1(t)
    \/ \E t \in Threads : WriteCallback2(t)
    \/ \E t \in Threads : ReadCallback(t)
    \/ \E t \in Threads : DeleteNamespaceWrite(t)
    \/ \E t \in Threads : SerializeRegistry(t)
    \/ \E t \in Threads : SerializeLock(t)
    \/ \E t \in Threads : SerializeKv(t)
    \/ \E t \in Threads : SerializeWrite(t)

SpecConc == InitConc /\ [][NextConc]_vars

\* thread t is inside a call (a thread that panicked is gone)
Busy(t) == th[t].pc \notin {"idle", "panicked"}

\* a step of thread t inside its call
Step(t) ==
    \/ ReloadRead(t) \/ ReloadNames(t) \/ ReloadInsert(t) \/ ReloadRemove(t)
    \/ SafeStorageWrite(t) \/ RegistryRead(t) \/ NamespaceRead(t) \/ NamespaceWrite(t)
    \/ WriteCallback1(t) \/ WriteCallback2(t) \/ ReadCallback(t)
    \/ DeleteNamespaceWrite(t)
    \/ SerializeRegistry(t) \/ SerializeLock(t) \/ SerializeKv(t) \/ SerializeWrite(t)

\* SpecConcFair: the calls of SpecConc on one key with one value, the
\* instance's nonce the file's, the file absent or holding the default
\* namespace; the scheduler runs every thread that can take a step, and no
\* thread is obliged to start a call
InitConcFair ==
    /\ \E ac \in BOOLEAN : kv = NewStore(1, NoPwd, ac)
    /\ file \in {NoFile, PriorSession(1, NoPwd, 0)}
    /\ hist = << >>
    /\ session = 1
    /\ Quiescent
    /\ budget = MaxConcOps

NextConcFair ==
    \/ \E t \in Threads, op \in KeyedOps, ns \in Namespaces : Begin(t, op, ns, 1, 1)
    \/ \E t \in Threads, op \in {"clear", "keys", "delete_namespace"}, ns \in Namespaces :
          Begin(t, op, ns, 0, 0)
    \/ \E t \in Threads : Begin(t, "commit", 0, 0, 0)
    \/ \E t \in Threads : Step(t)

SpecConcFair ==
    InitConcFair /\ [][NextConcFair]_vars /\ \A t \in Threads : WF_vars(Step(t))

(* SpecAuto: auto-commit is on; thread 1 alone puts, deletes or clears key *)
(* 1 of the default namespace, the other threads' calls are on other keys  *)
(* or on the other namespaces.                                             *)

\* the call can change what key 1 of the default namespace holds
Touches(op, ns, k) ==
    \/ op \in {"put", "delete"} /\ ns = 0 /\ k = 1
    \/ op \in {"clear", "delete_namespace"} /\ ns = 0

InitAuto ==
    /\ kv = NewStore(1, NoPwd, TRUE)
    /\ file \in {NoFile} \cup {PriorSession(1, NoPwd, ns0) : ns0 \in Namespaces}
    /\ hist = << >>
    /\ session = 1
    /\ Quiescent
    /\ budget = MaxConcOps

NextAuto ==
    \/ \E t \in Threads, ns \in Namespaces, k \in Keys, v \in Vals :
          (t = 1 \/ ~Touches("put", ns, k)) /\ Begin(t, "put", ns, k, v)
    \/ \E t \in Threads, op \in KeyedOps \ {"put"}, ns \in Namespaces, k \in Keys :
          (t = 1 \/ ~Touches(op, ns, k)) /\ Begin(t, op, ns, k, 0)
    \/ \E t \in Threads, op \in {"clear", "keys", "delete_namespace"}, ns \in Namespaces :
          (t = 1 \/ ~Touches(op, ns, 0)) /\ Begin(t, op, ns, 0, 0)
    \/ \E t \in Threads : Begin(t, "commit", 0, 0, 0)
    \/ \E t \in Threads : Step(t)

SpecAuto == InitAuto /\ [][NextAuto]_vars

(* SpecWatch: the reload watcher (reload.rs) runs as the last thread on a  *)
(* clone of the instance, the other threads make calls on the main handle, *)
(* and another process writes the backing file.                            *)

Watcher == NumThreads

MainThreads == Threads \ {Watcher}

\* the watcher is subscribed and its loop runs (reload.rs:37-65)
Watching == th[Watcher].pc \in {"w_recv", "w_replace", "w_locked"}

\* WatchAndReload::run, reload.rs:31: Watcher::new(tx, ..)? succeeds, or its
\* error ends run and start logs it (reload.rs:14-21)
WatcherNew ==
    /\ th[Watcher].pc = "w_new"
    /\ \E pc \in {"w_watch", "w_ended"} : th' = [th EXCEPT ![Watcher].pc = pc]
    /\ UNCHANGED <<kv, file, hist, budget, session, locks>>

\* reload.rs:33: watcher.watch(kv.path, ..)? succeeds, or its error ends
\* run; from then on a change of the file's content is an event
\* (buf: the content the watcher has been told of)
WatcherWatch ==
    /\ th[Watcher].pc = "w_watch"
    /\ \E pc \in {"w_recv", "w_ended"} :
          th' = [th EXCEPT ![Watcher].pc = pc, ![Watcher].buf = file.bytes]
    /\ UNCHANGED <<kv, file, hist, budget, session, locks>>

\* mutant: a snapshot that does not decode ends the watcher
WatchCycleEnds(r, f) ==
    Only({[r EXCEPT !.buf = f.bytes,
                    !.other = IF o.ok THEN o.storage ELSE Idle.other,
                    !.ret = IF o.ok THEN @ ELSE "logged",
                    !.pc = IF o.ok THEN "w_replace" ELSE "w_ended"] :
          o \in {ReadFile(f)}})

\* reload.rs:38-55: on NoticeWrite the file is read and decoded; when that
\* succeeds the watcher goes on to kv.replace(v), else the error is logged
\* (ret) and the cycle is over
WatchCycle(r, f) ==
    Only({[r EXCEPT !.buf = f.bytes,
                    !.other = IF o.ok THEN o.storage ELSE Idle.other,
                    !.ret = IF o.ok THEN @ ELSE "logged",
                    !.pc = IF o.ok THEN "w_replace" ELSE "w_recv"] :
          o \in {ReadFile(f)}})

\* reload.rs:38-42: rx.recv() returns the debounced event of a write
WatcherRecv ==
    /\ th[Watcher].pc = "w_recv"
    /\ file.bytes # th[Watcher].buf
    /\ th' = [th EXCEPT ![Watcher] = WatchCycle(@, file)]
    /\ UNCHANGED <<kv, file, hist, budget, session, locks>>

\* kv.replace(v) (reload.rs:43) is defined nowhere under src; it is taken
\* from the specification's reload watcher (section 4.5), a reconciliation
\* like reload's: it takes the registry's exclusive lock ...
WatcherLock ==
    /\ th[Watcher].pc = "w_replace"
    /\ CanWriteRegistry(locks)
    /\ locks' = [locks EXCEPT !.regW = Watcher]
    /\ th' = [th EXCEPT ![Watcher].pc = "w_locked"]
    /\ UNCHANGED <<kv, file, hist, budget, session>>

\* mutant: the reconciliation returns with the registry still locked
WatcherReplaceKeepsLock ==
    /\ th[Watcher].pc = "w_locked"
    /\ kv' = [kv EXCEPT !.storage =
                 ReloadFrom(@, [ok |-> TRUE, storage |-> th[Watcher].other])]
    /\ th' = [th EXCEPT ![Watcher].pc = "w_recv", ![Watcher].other = Idle.other]
    /\ UNCHANGED <<file, hist, budget, session, locks>>

\* ... and under it every namespace of the snapshot is inserted over the
\* in-memory one and every in-memory namespace the snapshot lacks is
\* removed; then the lock is dropped and the loop goes on
WatcherReplace ==
    /\ th[Watcher].pc = "w_locked"
    /\ kv' = [kv EXCEPT !.storage =
                 ReloadFrom(@, [ok |-> TRUE, storage |-> th[Watcher].other])]
    /\ locks' = [locks EXCEPT !.regW = 0]
    /\ th' = [th EXCEPT ![Watcher].pc = "w_recv", ![Watcher].other = Idle.other]
    /\ UNCHANGED <<file, hist, budget, session>>

\* another process leaves a snapshot, whole or torn, at the path
ExternalWrite ==
    /\ budget > 0
    /\ \E f \in {CutShort(PriorSession(1, NoPwd, 0))}
                 \cup {PriorSession(1, NoPwd, ns0) : ns0 \in Namespaces} :
          /\ f.bytes # file.bytes
          /\ file' = f
    /\ budget' = budget - 1
    /\ UNCHANGED <<kv, hist, session, th, locks>>

\* WatchAndReload::start (reload.rs:12-23) has spawned the watcher on a
\* store without password
InitWatch ==
    /\ \E n \in Nonces, ac \in BOOLEAN : kv = NewStore(n, NoPwd, ac)
    /\ file \in {NoFile} \cup {PriorSession(1, NoPwd, ns0) : ns0 \in Namespaces}
    /\ hist = << >>
    /\ session = 1
    /\ th = [t \in Threads |-> IF t = Watcher THEN [Idle EXCEPT !.pc = "w_new"] ELSE Idle]
    /\ locks = Unlocked
    /\ budget = MaxWatchOps

NextWatch ==
    \/ \E t \in MainThreads, ns \in Namespaces, k \in Keys, v \in Vals : Begin(t, "put", ns, k, v)
    \/ \E t \in MainThreads, op \in KeyedOps \ {"put"}, ns \in Namespaces, k \in Keys :
          Begin(t, op, ns, k, 0)
    \/ \E t \in MainThreads, op \in {"clear", "keys", "delete_namespace"}, ns \in Namespaces :
          Begin(t, op, ns, 0, 0)
    \/ \E t \in MainThreads : Begin(t, "commit", 0, 0, 0)
    \/ \E t \in MainThreads : ReloadRead(t)
    \/ \E t \in MainThreads : ReloadNames(t)
    \/ \E t \in MainThreads : ReloadInsert(t)
    \/ \E t \in MainThreads : ReloadRemove(t)
    \/ \E t \in MainThreads : SafeStorageWrite(t)
    \/ \E t \in MainThreads : RegistryRead(t)
    \/ \E t \in MainThreads : NamespaceRead(t)
    \/ \E t \in MainThreads : NamespaceWrite(t)
    \/ \E t \in MainThreads : WriteCallback1(t)
    \/ \E t \in MainThreads : WriteCallback2(t)
    \/ \E t \in MainThreads : ReadCallback(t)
    \/ \E t \in MainThreads : DeleteNamespaceWrite(t)
    \/ \E t \in MainThreads : SerializeRegistry(t)
    \/ \E t \in MainThreads : SerializeLock(t)
    \/ \E t \in MainThreads : SerializeKv(t)
    \/ \E t \in MainThreads : SerializeWrite(t)
    \/ WatcherNew
    \/ WatcherWatch
    \/ WatcherRecv
    \/ WatcherLock
    \/ WatcherReplace
    \/ ExternalWrite

SpecWatch == InitWatch /\ [][NextWatch]_vars

(* SpecPoison: calls on one thread, some of them lock_write with a closure *)
(* that panics.  std's RwLock is poisoned when a write guard is dropped by *)
(* a panic; the registry's write guard is held over no code that panics    *)
(* (v030.rs:79-86, 135-139, 182-197), so only a namespace's lock is ever   *)
(* poisoned: locks.poisoned holds the names whose lock is.                 *)

\* what is left poisoned after reload (v030.rs:166-201): a decoded file's
\* namespaces come with the locks of the decoded instance (kv.clone(),
\* v030.rs:186), the other names are removed
PoisonAfterReload(pz, st, f) ==
    Only({IF o.ok THEN pz \ (DOMAIN st \cup DOMAIN o.storage) ELSE pz :
          o \in {ReadFile(f)}})

\* helpers::persist_serialize (helpers.rs:155-162) with the names pz
\* poisoned: the file is opened (and created), then the Serialize of a
\* poisoned RwLock fails and bincode::serialize(object).unwrap() panics
\* before anything is written
PersistUnderPoison(f, s, pz) ==
    IF pz = {} THEN PersistSerialize(f, s)
    ELSE IF f.writable THEN [f EXCEPT !.exists = TRUE] ELSE f

CommitUnderPoisonResult(f, pz) ==
    IF ~f.writable THEN "FileError" ELSE IF pz = {} THEN "Ok" ELSE "Panic"

\* lock_write (v030.rs:113-130) with a closure that panics: the unwinding
\* drops the namespace's write guard, which poisons the lock
LockWritePanics(ns) ==
    /\ budget > 0
    /\ \E st \in {Resolve(kv.storage, file, ns)},
          pz \in {PoisonAfterReload(locks.poisoned, kv.storage, file)} :
          /\ kv' = [kv EXCEPT !.storage = st]
          /\ locks' = [locks EXCEPT !.poisoned = pz \cup {ns}]
          /\ hist' = Push(hist, Record("lock_write", ns, 0, 0, kv.pwd,
                                       IF ns \in pz THEN "PoisonError" ELSE "Panic",
                                       0, << >>))
    /\ budget' = budget - 1
    /\ UNCHANGED <<file, session, th>>

\* NamespaceMicroKV::put (namespace.rs:133-165): storage.write() fails on a
\* poisoned lock and lock_write returns PoisonError (v030.rs:125-128)
PutUnderPoison(ns, k, v) ==
    /\ budget > 0
    /\ \E st \in {Resolve(kv.storage, file, ns)},
          pz \in {PoisonAfterReload(locks.poisoned, kv.storage, file)} :
          /\ locks' = [locks EXCEPT !.poisoned = pz]
          /\ IF ns \in pz
             THEN /\ kv' = [kv EXCEPT !.storage = st]
                  /\ file' = file
                  /\ hist' = Push(hist, Record("put", ns, k, v, kv.pwd, "PoisonError", 0, << >>))
             ELSE \E kv2 \in {[kv EXCEPT !.storage =
                                  Put1(st, ns, PutClosure(st[ns], k, EncodeBlob(v, kv.pwd, kv.nonce)))]} :
                     /\ kv' = kv2
                     /\ file' = IF kv.is_auto_commit THEN PersistUnderPoison(file, kv2, pz) ELSE file
                     /\ hist' = Push(hist, Record("put", ns, k, v, kv.pwd,
                                                  IF kv.is_auto_commit
                                                  THEN CommitUnderPoisonResult(file, pz) ELSE "Ok",
                                                  0, << >>))
    /\ budget' = budget - 1
    /\ UNCHANGED <<session, th>>

\* NamespaceMicroKV::get (namespace.rs:70-130): storage.read() fails on a
\* poisoned lock and lock_read returns PoisonError (v030.rs:104-107)
GetUnderPoison(ns, k) ==
    /\ budget > 0
    /\ \E st \in {Resolve(kv.storage, file, ns)},
          pz \in {PoisonAfterReload(locks.poisoned, kv.storage, file)} :
          /\ locks' = [locks EXCEPT !.poisoned = pz]
          /\ kv' = [kv EXCEPT !.storage = st]
          /\ \E r \in {IF ns \in pz THEN [err |-> "PoisonError", val |-> 0]
                        ELSE GetClosure(st[ns], k, kv.pwd, kv.nonce)} :
                hist' = Push(hist, Record("get", ns, k, 0, kv.pwd, r.err, r.val, << >>))
    /\ budget' = budget - 1
    /\ UNCHANGED <<file, session, th>>

\* MicroKV030::commit (v030.rs:152-154)
CommitUnderPoison ==
    /\ budget > 0
    /\ file' = PersistUnderPoison(file, kv, locks.poisoned)
    /\ hist' = Push(hist, Record("commit", 0, 0, 0, kv.pwd,
                                 CommitUnderPoisonResult(file, locks.poisoned), 0, << >>))
    /\ budget' = budget - 1
    /\ UNCHANGED <<kv, session, th, locks>>

InitPoison ==
    /\ \E n \in Nonces, ac \in BOOLEAN : InitStore(n, NoPwd, ac)
    /\ budget = MaxPoisonOps

NextPoison ==
    \/ \E ns \in Namespaces : LockWritePanics(ns)
    \/ \E ns \in Namespaces, k \in Keys, v \in Vals : PutUnderPoison(ns, k, v)
    \/ \E ns \in Namespaces, k \in Keys : GetUnderPoison(ns, k)
    \/ CommitUnderPoison

SpecPoison == InitPoison /\ [][NextPoison]_vars

\* a namespace lock is held only under the registry's read lock, so no
\* entry of the registry is replaced or removed while its lock is held
LockUnderRegistry == \A t \in Threads : HeldNs(t) # {} => t \in locks.reg

----------------------------------------------------------------------------
(* Reading the history.                                                    *)

Made == Len(hist)

\* the i-th most recent call (1 is the last one)
Ago(i) == hist[Len(hist) - i + 1]

\* the record of the call a step makes
Called == hist'[Len(hist')]

\* the step is a call (not a stuttering step)
IsCall == budget' # budget

Mutators == {"put", "delete", "clear"}

Occurrences(seq, x) == Cardinality({i \in DOMAIN seq : seq[i] = x})

Before(seq, a, b) ==
    \E i, j \in DOMAIN seq : i < j /\ seq[i] = a /\ seq[j] = b

ContentOf(st, ns) == IF ns \in DOMAIN st THEN st[ns] ELSE << >>

----------------------------------------------------------------------------
(* Claims checked under SpecPut (C1, C2) and Spec (C7, C8, C10).           *)

\* C1: after put(k,v1) and put(k,v2) on one namespace both succeeded, the
\* next call get(k) returns v2 and the next call keys() lists k exactly once,
\* whatever the auto-commit flag and whether or not the backing file exists.
C1PutReplace ==
    (/\ Made >= 3
     /\ Ago(3).op = "put" /\ Ago(3).err = "Ok"
     /\ Ago(2).op = "put" /\ Ago(2).err = "Ok"
     /\ Ago(2).ns = Ago(3).ns /\ Ago(2).key = Ago(3).key
     /\ Ago(1).ns = Ago(2).ns)
    => /\ (Ago(1).op = "get" /\ Ago(1).key = Ago(2).key)
            => (Ago(1).err = "Ok" /\ Ago(1).out = Ago(2).val)
       /\ Ago(1).op = "keys" => Occurrences(Ago(1).keys, Ago(2).key) = 1

\* C2 (first half): after put(A,k,v1) and put(B,k,v2) on distinct
\* namespaces, get(A,k) returns v1 and get(B,k) returns v2.
C2Isolation ==
    (/\ Made >= 3
     /\ Ago(3).op = "put" /\ Ago(2).op = "put"
     /\ Ago(3).ns # Ago(2).ns /\ Ago(3).key = Ago(2).key
     /\ Ago(1).op = "get" /\ Ago(1).key = Ago(2).key)
    => /\ Ago(1).ns = Ago(3).ns => (Ago(1).err = "Ok" /\ Ago(1).out = Ago(3).val)
       /\ Ago(1).ns = Ago(2).ns => (Ago(1).err = "Ok" /\ Ago(1).out = Ago(2).val)

\* C2 (second half): a put, delete or clear through the handle of namespace
\* A leaves the keys and blobs of every other namespace B as they were.
C2Frame ==
    (IsCall /\ Called.op \in Mutators)
    => \A B \in (DOMAIN kv.storage) \ {Called.ns} :
          B \in DOMAIN kv'.storage /\ kv'.storage[B] = kv.storage[B]

\* C2: namespaces are isolated: same-key puts on two namespaces are read back
\* from each, and a mutation through one handle never changes another
\* namespace.
C2NamespaceIsolation == [](C2Isolation) /\ [][C2Frame]_vars

\* every blob of the snapshot was written by an instance holding password pwd
SamePassword(st, pwd) ==
    \A ns \in DOMAIN st : \A i \in DOMAIN st[ns] : BlobKey(st[ns][i][2]) = pwd

\* the value the snapshot's writer stored under k in ns (0: none)
SnapshotValue(st, ns, k) ==
    IF ContainsKey(ContentOf(st, ns), k) THEN BlobSer(KvGet(st[ns], k)) ELSE 0

\* C7: a facade call reconciles with the file before it reads: when the call
\* starts with the file holding a decodable snapshot S written by an instance
\* using the same password, get(k) returns S's value for k (None if S lacks
\* k) and keys() returns S's keys.
C7ObservesCommitted ==
    [][(/\ IsCall
        /\ file.exists /\ ReadFile(file).ok
        /\ SamePassword(ReadFile(file).storage, kv.pwd))
       => /\ Called.op = "get"
               => /\ Called.err = "Ok"
                  /\ Called.out = SnapshotValue(ReadFile(file).storage, Called.ns, Called.key)
          /\ Called.op = "keys"
               => Called.keys = KeysOf(ContentOf(ReadFile(file).storage, Called.ns))]_vars

\* C8: an uncommitted put, delete or clear on namespace N survives the next
\* reconciliation when the file has not changed since this instance last
\* loaded it: after such a mutation with auto-commit off, a following get or
\* keys call (on any namespace) leaves N's content as the mutation left it.
C8KeepsUncommitted ==
    [][(/\ IsCall /\ Made >= 1
        /\ Ago(1).op \in Mutators
        /\ ~kv.is_auto_commit
        /\ Called.op \in {"get", "keys"})
       => /\ Ago(1).ns \in DOMAIN kv'.storage
          /\ kv'.storage[Ago(1).ns] = kv.storage[Ago(1).ns]]_vars

\* C10: a successful put, delete or clear rewrites the file iff auto-commit
\* is enabled: disabled, the file is left exactly as it was; enabled, the
\* file decodes to the in-memory registry when the call returns.
C10AutoCommitIff ==
    [][(IsCall /\ Called.op \in Mutators /\ Called.err = "Ok")
       => IF kv.is_auto_commit
          THEN /\ file'.exists
               /\ ReadFile(file').ok
               /\ ReadFile(file').storage = kv'.storage
          ELSE file' = file]_vars

\* C10 witness: a put has just returned with auto-commit disabled while the
\* file exists and holds something else than the registry.
C10Witness ==
    /\ Made >= 1
    /\ Ago(1).op = "put"
    /\ ~kv.is_auto_commit
    /\ file.exists
    /\ ReadFile(file).ok
    /\ ReadFile(file).storage # kv.storage

----------------------------------------------------------------------------
(* Claim checked under SpecOrder.                                          *)

\* C3: with no backing file, keys are kept in insertion order: a put moves
\* its key to the end, and neither a put nor a delete changes the relative
\* order of the other keys.
C3InsertionOrder ==
    [][(IsCall /\ Called.op \in {"put", "delete"} /\ ~file.exists /\ ~file'.exists)
       => LET old == KeysOf(ContentOf(kv.storage, Called.ns))
              new == KeysOf(kv'.storage[Called.ns])
          IN  /\ \A a, b \in OrderKeys \ {Called.key} :
                    Before(old, a, b) => Before(new, a, b)
              /\ Called.op = "put" => new[Len(new)] = Called.key]_vars

----------------------------------------------------------------------------
(* Claim checked under SpecOpen.                                           *)

\* C9 (store): reopening right after a commit succeeds and yields the
\* namespaces, key order, blobs, nonce and auto-commit flag of the committing
\* instance.
C9OpenStep ==
    (/\ IsCall /\ Made >= 1
     /\ Ago(1).op = "commit"
     /\ Called.op = "open")
    => /\ Called.err = "Ok"
       /\ kv'.storage = kv.storage
       /\ kv'.nonce = kv.nonce
       /\ kv'.is_auto_commit = kv.is_auto_commit

\* C9 (value): put(k,v), commit, open with the same password, get(k)
\* returns v.
C9GetAfterReopen ==
    (/\ Made >= 4
     /\ Ago(4).op = "put" /\ Ago(3).op = "commit" /\ Ago(2).op = "open"
     /\ Ago(2).pwd = Ago(4).pwd
     /\ Ago(1).op = "get" /\ Ago(1).ns = Ago(4).ns /\ Ago(1).key = Ago(4).key)
    => (Ago(1).err = "Ok" /\ Ago(1).out = Ago(4).val)

\* C9: what commit wrote is what open reads back, also over the tail of a
\* longer earlier file, and a value put before the commit is returned by get
\* after reopening with the same password.
C9CommitOpenRoundTrip == [][C9OpenStep]_vars /\ [](C9GetAfterReopen)

\* C9 witness: delete, commit, open, get where the commit was shorter than
\* the file it overwrote (the old tail is still there) and get found a value.
C9Witness ==
    /\ Made >= 4
    /\ Ago(4).op = "delete" /\ Ago(3).op = "commit" /\ Ago(2).op = "open"
    /\ Ago(1).op = "get" /\ Ago(1).err = "Ok" /\ Ago(1).out # 0
    /\ Len(file.bytes) > Len(Serialize(kv))

----------------------------------------------------------------------------
(* Claims checked under SpecConc.                                          *)

\* C4: a get, exists or keys that runs its callback on a namespace never
\* does so while a put, delete or clear on that namespace is in the middle
\* of its callback (the key removed and not yet re-inserted, the blobs wiped
\* and the map not yet emptied): what it reads is the content before or
\* after the write.
C4NoPartialRead ==
    \A r \in Threads :
       (th[r].pc = "cb" /\ th[r].op \in ReadOps) => ~Partial(th[r].ns)

\* C4 witness: a replacing put has removed its key and not yet re-inserted
\* it while a reader of the same namespace waits for the namespace's lock.
C4Witness ==
    \E w, r \in Threads :
       /\ th[w].pc = "cb2" /\ th[w].op = "put"
       /\ ContainsKey(th[w].pre, th[w].key)
       /\ ~ContainsKey(kv.storage[th[w].ns], th[w].key)
       /\ th[r].pc = "ns_lock" /\ th[r].op \in ReadOps /\ th[r].ns = th[w].ns
       /\ ~CanRead(locks, th[r].ns)

\* thread t is at an acquisition that a lock held by thread w keeps it from
WaitsFor(t, w) ==
    \/ th[t].pc \in {"rl_ins", "rl_rem", "ss_write", "dn_write"} /\ w \in locks.reg
    \/ /\ th[t].pc = "ns_lock"
       /\ \/ locks.nsW[th[t].ns] = w
          \/ th[t].op \in WriteOps /\ w \in locks.nsR[th[t].ns]
    \/ th[t].pc = "ser_ns" /\ th[t].todo # {} /\ locks.nsW[NextName(th[t].todo)] = w

\* C5: while a thread holds namespace A's exclusive lock inside lock_write,
\* a facade operation of another thread on a different namespace B is never
\* kept waiting by a lock the writer holds.
C5OtherNamespaceUnblocked ==
    \A w, t \in Threads :
       (/\ w # t
        /\ th[w].op \in WriteOps /\ locks.nsW[th[w].ns] = w
        /\ th[t].op \in FacadeOps /\ th[t].ns # th[w].ns)
       => ~WaitsFor(t, w)

\* thread t is at an acquisition of the registry's lock
RequestsRegistry(t) ==
    th[t].pc \in {"rl_cns", "rl_ins", "rl_rem", "ss_write", "reg_read", "dn_write", "ser_reg"}

\* C6: in every interleaving of facade operations, commit, delete_namespace
\* and reload, no thread requests the registry's lock while it holds a
\* namespace's lock, and no thread holds two namespace locks at once.
C6LockOrder ==
    \A t \in Threads :
       /\ RequestsRegistry(t) => HeldNs(t) = {}
       /\ Cardinality(HeldNs(t)) <= 1

\* C6 witness: a commit holds one namespace's lock while it serializes a
\* registry of two namespaces, and another thread is about to take the
\* registry's write lock in delete_namespace.
C6Witness ==
    \E t, u \in Threads :
       /\ th[t].pc = "ser_kv" /\ Cardinality(HeldNs(t)) = 1
       /\ Cardinality(DOMAIN kv.storage) = 2
       /\ th[u].op = "delete_namespace" /\ th[u].pc = "dn_write"

----------------------------------------------------------------------------
(* Claims checked under SpecDisk (C11, C12, C16 to C20).                   *)

\* the call of this step makes a commit: an explicit one, or the one at the
\* tail of put, delete and clear when auto-commit is on
Commits == Called.op = "commit" \/ (Called.op \in Mutators /\ kv.is_auto_commit)

SealedUnderOther(ns, k) ==
    /\ ns \in DOMAIN kv.storage
    /\ ContainsKey(kv.storage[ns], k)
    /\ kv.pwd \in Pwds
    /\ BlobKey(KvGet(kv.storage[ns], k)) \in Pwds \ {kv.pwd}
    /\ BlobNonce(KvGet(kv.storage[ns], k)) = kv.nonce

\* C12: a wrong password shows at get only: open never returns CryptoError
\* and the store it returns is what the file's bytes decode to, whatever the
\* password; get(k) on a blob sealed under another password (same nonce)
\* returns CryptoError and leaves the namespace as it was.
C12WrongPasswordAtGet ==
    [][IsCall =>
          /\ Called.op = "open" =>
                /\ Called.err # "CryptoError"
                /\ Called.err = "Ok" /\ file.exists =>
                      kv'.storage = Deserialize(file.bytes).storage
          /\ Called.op = "get" /\ SealedUnderOther(Called.ns, Called.key) =>
                /\ Called.err = "CryptoError"
                /\ kv'.storage[Called.ns] = kv.storage[Called.ns]]_vars

\* C16: opening a file of the flat single-namespace layout (writable path)
\* succeeds and returns a store whose registry has the one namespace "",
\* holding the file's entries, with the file's nonce and auto-commit flag.
C16LegacyOpens ==
    [][\A q \in {NoPwd} \cup Pwds :
          (/\ IsCall /\ Called.op = "open"
           /\ file.writable /\ file.exists
           /\ file.bytes = LegacySession(1, q).bytes)
          => /\ Called.err = "Ok"
             /\ kv'.storage = Put1(EmptyStorage, 0, LegacyData(1, q))
             /\ kv'.nonce = 1
             /\ kv'.is_auto_commit = FALSE]_vars

\* C17: when the file's bytes do not decode, open returns MigrateError with
\* the current version as its target, the caller gets no store (it keeps
\* the one it had) and the file is left as it was.
C17UndecodableFails ==
    [][(/\ IsCall /\ Called.op = "open"
        /\ file.exists /\ ~Deserialize(file.bytes).ok)
       => /\ Called.err = "MigrateError"
          /\ Called.out = CURRENT_VERSION
          /\ kv' = kv
          /\ file' = file]_vars

\* open has just failed with MigrateError on a torn file
C17Witness ==
    /\ Made >= 1 /\ Ago(1).op = "open" /\ Ago(1).err = "MigrateError"
    /\ file.exists /\ ~Deserialize(file.bytes).ok
    /\ \E q \in {NoPwd} \cup Pwds : file.bytes = CutShort(PriorSession(1, q, 0)).bytes

\* the file begins with the snapshot of the store s
HoldsSnapshot(f, s) ==
    /\ f.exists
    /\ Len(f.bytes) >= Len(Serialize(s))
    /\ SubSeq(f.bytes, 1, Len(Serialize(s))) = Serialize(s)

\* C18: open on an existing decodable file writes the store back to the
\* requested path before returning it: when open returns success the file
\* holds the returned store's snapshot (with the requested path in it), and
\* when the write fails open returns the error and no store.
C18OpenWritesBack ==
    [][(/\ IsCall /\ Called.op = "open"
        /\ file.exists /\ Deserialize(file.bytes).ok)
       => /\ Called.err = "Ok" => HoldsSnapshot(file', kv') /\ kv'.path = DbPath
          /\ ~file.writable => Called.err = "FileError" /\ kv' = kv /\ file' = file]_vars

\* open has just returned the store of an existing file, and the file
\* holds the store's snapshot
C18Witness ==
    /\ Made = 1 /\ Ago(1).op = "open" /\ Ago(1).err = "Ok"
    /\ kv.storage # EmptyStorage
    /\ HoldsSnapshot(file, kv)

\* C19: when a current-format file is opened twice in succession, the
\* second open returns the namespaces, keys, blobs, nonce and auto-commit
\* flag the first one returned, and the file decodes after the second open
\* to what it decoded to after the first.
C19OpenTwice ==
    [][(/\ IsCall /\ Made >= 1
        /\ Ago(1).op = "open" /\ Ago(1).err = "Ok" /\ file.exists
        /\ Called.op = "open")
       => /\ Called.err = "Ok"
          /\ kv'.storage = kv.storage
          /\ kv'.nonce = kv.nonce
          /\ kv'.is_auto_commit = kv.is_auto_commit
          /\ Deserialize(file'.bytes) = Deserialize(file.bytes)]_vars

\* a file with entries in it has been opened twice, with success both times
C19Witness ==
    /\ Made = 2
    /\ Ago(2).op = "open" /\ Ago(2).err = "Ok"
    /\ Ago(1).op = "open" /\ Ago(1).err = "Ok"
    /\ file.exists /\ kv.storage # EmptyStorage

\* C20: open on a path that holds no file returns success with a fresh
\* store, empty registry, auto-commit off and no password but the one the
\* caller then sets, and creates no file.
C20OpenAbsent ==
    [][(IsCall /\ Called.op = "open" /\ ~file.exists)
       => /\ Called.err = "Ok"
          /\ kv'.storage = EmptyStorage
          /\ kv'.is_auto_commit = FALSE
          /\ kv'.pwd = Called.pwd
          /\ file' = file]_vars

\* after a put on a store without file, open has returned a fresh store
\* with no password, and there is still no file
C20Witness ==
    /\ Made = 2 /\ Ago(2).op = "put"
    /\ Ago(1).op = "open" /\ Ago(1).err = "Ok" /\ Ago(1).pwd = NoPwd
    /\ ~file.exists
    /\ kv.storage = EmptyStorage /\ kv.pwd = NoPwd /\ ~kv.is_auto_commit

----------------------------------------------------------------------------
(* Claim checked under SpecCodec (C13).                                    *)

\* C13: decode_value of the blob encode_value made of V, under the same
\* password option and nonce, returns V; with no password the blob is the
\* plain serialized bytes of V, and decoding opens nothing (no CryptoError
\* whatever the blob).
C13CodecRoundTrip ==
    /\ Made >= 2 /\ Ago(2).op = "encode_value" /\ Ago(1).op = "decode_value"
          /\ Ago(1).val = Ago(2).out
       => Ago(1).err = "Ok" /\ Ago(1).out = Ago(2).val
    /\ Made >= 1 /\ kv.pwd = NoPwd /\ Ago(1).op = "encode_value"
       => Ago(1).out = JsonBincode(Ago(1).val)
    /\ Made >= 1 /\ kv.pwd = NoPwd /\ Ago(1).op = "decode_value"
       => Ago(1).err # "CryptoError"

\* a value was sealed under a password and came back from the decoder
C13Witness ==
    /\ Made >= 2 /\ Ago(2).op = "encode_value" /\ Ago(1).op = "decode_value"
    /\ Ago(1).val = Ago(2).out
    /\ kv.pwd \in Pwds
    /\ Ago(1).out = Ago(2).val

----------------------------------------------------------------------------
(* Claims checked under Spec (C14, C15).                                   *)

\* the call of this step addresses the namespace and key of the call before
SameKeyAgain == Called.ns = Ago(1).ns /\ Called.key = Ago(1).key

\* C14: delete(k) on a key the namespace lacks returns success and leaves
\* the namespace's entries as they were; after a successful delete(k) the
\* next call exists(k) returns false; a second delete(k) leaves the state
\* the first one left.
C14DeleteIdempotent ==
    [][IsCall =>
          /\ (/\ Called.op = "delete"
              /\ Called.ns \in DOMAIN kv.storage
              /\ ~ContainsKey(kv.storage[Called.ns], Called.key))
             => /\ Called.err = "Ok"
                /\ kv'.storage[Called.ns] = kv.storage[Called.ns]
          /\ (/\ Made >= 1 /\ Ago(1).op = "delete" /\ Ago(1).err = "Ok"
              /\ Called.op = "exists" /\ SameKeyAgain)
             => Called.out = 0
          /\ (/\ Made >= 1 /\ Ago(1).op = "delete" /\ Ago(1).err = "Ok"
              /\ Called.op = "delete" /\ SameKeyAgain)
             => Called.err = "Ok" /\ kv'.storage = kv.storage]_vars

\* C15: after clear() succeeded on a namespace, the next call keys() on it
\* returns no key and the next call exists(k) on it returns false, with
\* auto-commit on or off and with or without a backing file.
C15ClearEmpties ==
    [][(/\ IsCall /\ Made >= 1
        /\ Ago(1).op = "clear" /\ Ago(1).err = "Ok"
        /\ Called.ns = Ago(1).ns)
       => /\ Called.op = "keys" => Called.keys = << >>
          /\ Called.op = "exists" => Called.out = 0]_vars

----------------------------------------------------------------------------
(* Claim checked under SpecDisk (C21).                                     *)

\* C21: when the backing file exists but does not decode, the implicit
\* reload of get, put, delete and clear makes the call return an error
\* instead of going on with the in-memory state.
C21ReloadFailureReturned ==
    [][(/\ IsCall /\ Called.op \in {"get", "put", "delete", "clear"}
        /\ file.exists /\ ~Deserialize(file.bytes).ok)
       => Called.err # "Ok"]_vars

----------------------------------------------------------------------------
(* The reload watcher (SpecWatch).                                         *)

\* the watcher's thread takes a step
WatcherSteps == th'[Watcher] # th[Watcher]

\* C22: a write notification whose file does not decode leaves the registry
\* as it is and the watcher goes on waiting for notifications; when creating
\* the watcher or subscribing fails the background task ends, for good,
\* with the registry, the file and the locks untouched, so nothing of it
\* reaches a call on the main handle.
C22WatcherFailureContained ==
    [][/\ (th[Watcher].pc = "w_recv" /\ WatcherSteps /\ ~ReadFile(file).ok)
             => /\ th'[Watcher].pc = "w_recv"
                /\ UNCHANGED <<kv, file, locks>>
                /\ \A t \in MainThreads : th'[t] = th[t]
       /\ (th'[Watcher].pc = "w_ended" /\ WatcherSteps)
             => /\ th[Watcher].pc \in {"w_new", "w_watch"}
                /\ UNCHANGED <<kv, file, locks>>
                /\ \A t \in MainThreads : th'[t] = th[t]
       /\ th[Watcher].pc = "w_ended" => ~WatcherSteps /\ locks.regW # Watcher]_vars

\* C22 witness: the watcher has skipped a torn snapshot another process
\* left at the path and waits for the next notification, while the
\* registry still holds what a call on the main handle has put.
C22Witness ==
    /\ th[Watcher].pc = "w_recv" /\ th[Watcher].ret = "logged"
    /\ th[Watcher].buf = file.bytes
    /\ file.exists /\ ~ReadFile(file).ok
    /\ \E ns \in DOMAIN kv.storage : KeysOf(kv.storage[ns]) # << >>

\* thread t is inside a call and cannot go on because the watcher has the
\* registry locked
WaitsForWatcher(t) == RequestsRegistry(t) /\ locks.regW = Watcher

----------------------------------------------------------------------------
(* Poisoned locks (SpecPoison).                                            *)

\* C24: once a namespace's lock is poisoned it stays poisoned, and every
\* later call that needs it (a get, put or lock_write on the namespace, a
\* commit) returns PoisonError and changes neither the registry nor the
\* file.
C24PoisonIsFinal ==
    [][\A ns \in locks.poisoned :
          /\ ns \in locks'.poisoned
          /\ (/\ IsCall
              /\ \/ Called.op \in {"get", "put", "lock_write"} /\ Called.ns = ns
                 \/ Called.op = "commit")
                => Called.err = "PoisonError" /\ kv' = kv /\ file' = file]_vars

----------------------------------------------------------------------------
(* Claims checked under Spec (C25, C26).                                   *)

\* C25: a handle is a namespace name and a clone of the store, and the
\* clones share one registry (kv.rs:171-177, namespace.rs:12-26), so a call
\* made through any handle for N is the store's call on N: a put, delete or
\* clear on N that succeeded is observed by the next get or keys on N.
C25HandlesShareRegistry ==
    (/\ Made >= 2
     /\ Ago(2).op \in Mutators /\ Ago(2).err = "Ok"
     /\ Ago(1).ns = Ago(2).ns)
    => /\ (Ago(2).op = "put" /\ Ago(1).op = "get" /\ Ago(1).key = Ago(2).key)
            => (Ago(1).err = "Ok" /\ Ago(1).out = Ago(2).val)
       /\ (Ago(2).op = "put" /\ Ago(1).op = "keys")
            => Occurrences(Ago(1).keys, Ago(2).key) = 1
       /\ (Ago(2).op = "delete" /\ Ago(1).op = "get" /\ Ago(1).key = Ago(2).key)
            => (Ago(1).err = "Ok" /\ Ago(1).out = 0)
       /\ (Ago(2).op = "delete" /\ Ago(1).op = "keys")
            => Occurrences(Ago(1).keys, Ago(2).key) = 0
       /\ (Ago(2).op = "clear" /\ Ago(1).op = "keys") => Ago(1).keys = << >>

\* C26: the nonce of an instance never changes, and every snapshot a call
\* writes over a decodable snapshot at the path carries the nonce that
\* snapshot carried.
C26NonceFixed ==
    [][/\ kv'.nonce = kv.nonce
       /\ (/\ file' # file
           /\ ReadFile(file).ok /\ ReadFile(file').ok)
             => ReadFile(file').nonce = ReadFile(file).nonce]_vars

----------------------------------------------------------------------------
(* Claim checked under SpecSort (C27).                                     *)

\* what keys() on namespace ns returns when called on registry st with the
\* file f at the path
KeysNow(st, f, ns) == KeysOf(Resolve(st, f, ns)[ns])

\* C27: sorted_keys returns the keys that keys() returns at that moment,
\* each once, in strictly ascending order, and the call leaves what keys()
\* returns as it was.
C27SortedKeys ==
    [][(IsCall /\ Called.op = "sorted_keys")
       => /\ Called.err = "Ok"
          /\ Len(Called.keys) = Len(KeysNow(kv.storage, file, Called.ns))
          /\ {Called.keys[i] : i \in DOMAIN Called.keys}
               = {k \in Keys : Occurrences(KeysNow(kv.storage, file, Called.ns), k) = 1}
          /\ \A i, j \in DOMAIN Called.keys : i < j => Called.keys[i] < Called.keys[j]
          /\ KeysNow(kv'.storage, file', Called.ns) = KeysNow(kv.storage, file, Called.ns)]_vars

\* C27 witness: sorted_keys has listed, in ascending order, a namespace
\* that still holds its two keys in descending insertion order.
C27Witness ==
    /\ Made >= 1 /\ Ago(1).op = "sorted_keys"
    /\ Ago(1).keys = <<1, 2>>
    /\ KeysOf(ContentOf(kv.storage, Ago(1).ns)) = <<2, 1>>

----------------------------------------------------------------------------
(* Claims checked under SpecConc (C28, C29).                               *)

\* the threads inside a lock_read callback on ns (v030.rs:108)
Readers(ns) == {t \in Threads : th[t].pc = "cb" /\ th[t].op \in ReadOps /\ th[t].ns = ns}

\* the threads inside a lock_write callback on ns (v030.rs:129)
Writers(ns) ==
    {t \in Threads : th[t].pc \in {"cb", "cb2"} /\ th[t].op \in WriteOps /\ th[t].ns = ns}

\* C28: on every namespace, at every instant, at most one thread is inside
\* a lock_write callback, and when one is, no thread is inside a lock_read
\* callback; readers alone may be several.
C28ReadersOrOneWriter ==
    \A ns \in Namespaces :
       /\ Cardinality(Writers(ns)) <= 1
       /\ Writers(ns) # {} => Readers(ns) = {}

\* C28 witness: two threads are inside read callbacks on one namespace at
\* the same time.
C28Witness ==
    \E ns \in Namespaces : Cardinality(Readers(ns)) >= 2 /\ Writers(ns) = {}

\* C29: under fair scheduling every call a thread has started returns
\* (or the thread panics): no interleaving of get, put, delete, exists,
\* keys, clear, commit and delete_namespace leaves a thread waiting for a
\* lock for ever.
C29EveryCallReturns == \A t \in Threads : Busy(t) ~> ~Busy(t)

\* C29 witness: a delete_namespace with auto-commit has dropped the
\* registry's write guard and its commit holds the registry's and a
\* namespace's shared locks, while the other thread waits for the
\* registry's write lock.
C29Witness ==
    \E t, u \in Threads :
       /\ th[t].op = "delete_namespace" /\ th[t].pc = "ser_kv"
       /\ t \in locks.reg /\ HeldNs(t) # {}
       /\ th[u].pc \in {"rl_ins", "rl_rem", "ss_write", "dn_write"}
       /\ ~CanWriteRegistry(locks)

----------------------------------------------------------------------------
(* Claim checked under SpecReload (C30).                                   *)

\* C30: a reload that decodes the snapshot S at the path leaves the
\* registry with exactly S's namespaces, each with S's entries in S's
\* order, and leaves password, nonce, auto-commit flag, path and the file
\* as they were.
C30ReloadEqualsSnapshot ==
    [][(IsCall /\ Called.op = "reload" /\ ReadFile(file).ok)
       => /\ DOMAIN kv'.storage = DOMAIN ReadFile(file).storage
          /\ \A ns \in DOMAIN kv'.storage : kv'.storage[ns] = ReadFile(file).storage[ns]
          /\ kv'.pwd = kv.pwd /\ kv'.nonce = kv.nonce
          /\ kv'.is_auto_commit = kv.is_auto_commit /\ kv'.path = kv.path
          /\ file' = file]_vars

\* C30 witness: a reload has just replaced a registry that held an
\* uncommitted put on a namespace the snapshot lacks; the registry is the
\* snapshot's, the instance's nonce is not.
C30Witness ==
    /\ Made >= 2 /\ Ago(1).op = "reload" /\ Ago(2).op = "put"
    /\ ReadFile(file).ok
    /\ Ago(2).ns \notin DOMAIN ReadFile(file).storage
    /\ kv.storage = ReadFile(file).storage
    /\ kv.storage # EmptyStorage
    /\ kv.nonce # ReadFile(file).nonce

----------------------------------------------------------------------------
(* Claim checked under SpecEnsure (C31).                                   *)

\* C31: safe_storage leaves the contents of a namespace the registry
\* already holds as they are, and a second safe_storage right after it
\* would change nothing, with or without a file at the path.
C31SafeStorageIdempotent ==
    [][(IsCall /\ Called.op = "safe_storage")
       => /\ Called.ns \in DOMAIN kv.storage
               => /\ Called.ns \in DOMAIN kv'.storage
                  /\ kv'.storage[Called.ns] = kv.storage[Called.ns]
          /\ SafeStorage(kv'.storage, file', Called.ns) = kv'.storage]_vars

----------------------------------------------------------------------------
(* Claims checked under SpecConc (C32) and SpecAuto (C33).                 *)

\* C32: in lock_read and lock_write the namespace safe_storage has ensured
\* is still in the registry when the registry's shared lock is taken, in
\* every interleaving, so storage_map.get(namespace).unwrap() never panics.
C32LookupNeverPanics ==
    /\ \A t \in Threads : th[t].pc # "panicked"
    /\ \A t \in Threads : th[t].pc = "ns_lock" => th[t].ns \in DOMAIN kv.storage

\* C33: with auto-commit on, when thread 1's put of key 1 on the default
\* namespace returns, the file holds key 1 with the blob of the value put,
\* whatever the other threads' calls on other keys and other namespaces
\* did in between.
C33PutReachesFile ==
    [][(/\ th[1].op = "put" /\ th[1].ns = 0 /\ th[1].key = 1
        /\ Busy(1) /\ th'[1].pc = "idle")
       => /\ ReadFile(file').ok
          /\ 0 \in DOMAIN ReadFile(file').storage
          /\ ContainsKey(ReadFile(file').storage[0], 1)
          /\ KvGet(ReadFile(file').storage[0], 1) = EncodeBlob(th[1].val, kv.pwd, kv.nonce)]_vars

----------------------------------------------------------------------------
(* Claims checked under SpecDisk (C34) and Spec (C35).                     *)

\* C34: when the auto-commit of put, delete or clear fails, the call
\* returns the error and the registry keeps the mutation: put's key holds
\* the new blob, delete's key is absent, clear's namespace is empty; the
\* file is as the failed open left it.
C34NoRollback ==
    [][(IsCall /\ Called.op \in Mutators /\ Called.err # "Ok")
       => /\ Called.ns \in DOMAIN kv'.storage
          /\ Called.op = "put"
               => /\ ContainsKey(kv'.storage[Called.ns], Called.key)
                  /\ KvGet(kv'.storage[Called.ns], Called.key)
                       = EncodeBlob(Called.val, kv.pwd, kv.nonce)
          /\ Called.op = "delete" => ~ContainsKey(kv'.storage[Called.ns], Called.key)
          /\ Called.op = "clear" => kv'.storage[Called.ns] = << >>
          /\ file' = file]_vars

\* C34 witness: an auto-committing put has come back with FileError, the
\* registry holds its key and the file does not.
C34Witness ==
    /\ Made >= 1 /\ Ago(1).op = "put" /\ Ago(1).err = "FileError"
    /\ Ago(1).ns \in DOMAIN kv.storage
    /\ ContainsKey(kv.storage[Ago(1).ns], Ago(1).key)
    /\ ReadFile(file).ok
    /\ Ago(1).ns \notin DOMAIN ReadFile(file).storage

\* C35: with no file at the path, get, exists, keys and sorted_keys change
\* nothing but the registry, which gains the requested namespace, empty,
\* when it lacked it; every namespace it held keeps its keys, order and
\* blobs, and there is still no file.
C35ReadsOnlyEnsure ==
    [][(/\ IsCall /\ Called.op \in {"get", "exists", "keys", "sorted_keys"}
        /\ ~file.exists)
       => /\ DOMAIN kv'.storage = DOMAIN kv.storage \cup {Called.ns}
          /\ \A ns \in DOMAIN kv.storage : kv'.storage[ns] = kv.storage[ns]
          /\ Called.ns \notin DOMAIN kv.storage => kv'.storage[Called.ns] = << >>
          /\ kv' = [kv EXCEPT !.storage = kv'.storage]
          /\ file' = file]_vars

\* C35 witness: with no file, a read of a namespace the registry lacked
\* has added it empty next to a namespace that holds a key.
C35Witness ==
    /\ Made >= 2 /\ Ago(2).op = "put"
    /\ Ago(1).op \in {"get", "exists", "keys", "sorted_keys"}
    /\ Ago(1).ns # Ago(2).ns
    /\ ~file.exists
    /\ DOMAIN kv.storage = {Ago(1).ns, Ago(2).ns}
    /\ kv.storage[Ago(1).ns] = << >>
    /\ ContainsKey(kv.storage[Ago(2).ns], Ago(2).key)

====
